---------------------------- MODULE Spec2Model ----------------------------
(***************************************************************************)
(* A model of the Paths-LE extension's extraction / validation / safety    *)
(* pipeline (OffensiveEdge/paths-le).                                       *)
(*                                                                         *)
(* Text is modelled as a sequence of one-character strings, so that the    *)
(* regular expressions of the source (safety heuristics, message           *)
(* sanitisation) are evaluated on characters, as the code evaluates them.  *)
(* An optional value (TypeScript `T | undefined`) is a sequence of length  *)
(* 0 (undefined) or 1.                                                     *)
(***************************************************************************)
EXTENDS Integers, Sequences, FiniteSets, TLC

(***************************************************************************)
(* Optional values.                                                        *)
(***************************************************************************)
Undefined == << >>

Some(v) == << v >>

IsDefined(o) == o # << >>

\* a ?? b
Coalesce(o, d) == IF o = << >> THEN d ELSE o[1]

Max(a, b) == IF a >= b THEN a ELSE b

(***************************************************************************)
(* A small backtracking matcher for the regular expressions of the source. *)
(* A pattern is a sequence of items; an item matches between lo and hi     *)
(* characters of one class, greedily (hi is 1, or unbounded when many).    *)
(***************************************************************************)
Lit(c) == [cls |-> {c}, neg |-> FALSE, lo |-> 1, many |-> FALSE]

OneOf(S) == [cls |-> S, neg |-> FALSE, lo |-> 1, many |-> FALSE]

Opt(S) == [cls |-> S, neg |-> FALSE, lo |-> 0, many |-> FALSE]

Star(S) == [cls |-> S, neg |-> FALSE, lo |-> 0, many |-> TRUE]

Plus(S) == [cls |-> S, neg |-> FALSE, lo |-> 1, many |-> TRUE]

StarNot(S) == [cls |-> S, neg |-> TRUE, lo |-> 0, many |-> TRUE]

PlusNot(S) == [cls |-> S, neg |-> TRUE, lo |-> 1, many |-> TRUE]

\* The literal characters of `chars`, one item each.
Lits(chars) == [i \in 1..Len(chars) |-> Lit(chars[i])]

InClass(c, item) == (c \in item.cls) # item.neg

\* The number of consecutive characters of s from position i that item accepts,
\* capped at `cap`.
RECURSIVE RunLength(_, _, _, _)
RunLength(item, s, i, cap) ==
    IF cap = 0 \/ i > Len(s) \/ ~InClass(s[i], item)
    THEN 0
    ELSE 1 + RunLength(item, s, i + 1, cap - 1)

\* MatchFrom(pat, k, s, i): items k.. of pat matched against s from position i.
\* The position after the match, or 0 when there is none; the longest run of
\* each item is tried first (greedy), then shorter ones (backtracking).
RECURSIVE MatchFrom(_, _, _, _)
RECURSIVE TryRuns(_, _, _, _, _)
MatchFrom(pat, k, s, i) ==
    IF k > Len(pat)
    THEN i
    ELSE LET item == pat[k]
             cap == IF item.many THEN Len(s) ELSE 1
         IN TryRuns(pat, k, s, i, RunLength(item, s, i, cap))

TryRuns(pat, k, s, i, n) ==
    IF n < pat[k].lo
    THEN 0
    ELSE LET r == MatchFrom(pat, k + 1, s, i + n)
         IN IF r # 0 THEN r ELSE TryRuns(pat, k, s, i, n - 1)

\* String.prototype.match with the g flag: the matches of pat in s, left to
\* right and not overlapping, each as <<first, last + 1>>.
RECURSIVE MatchesFrom(_, _, _)
MatchesFrom(pat, s, i) ==
    IF i > Len(s)
    THEN << >>
    ELSE LET r == MatchFrom(pat, 1, s, i)
         IN IF r = 0
            THEN MatchesFrom(pat, s, i + 1)
            ELSE << <<i, r>> >> \o MatchesFrom(pat, s, IF r > i THEN r ELSE i + 1)

MatchAll(pat, s) == MatchesFrom(pat, s, 1)

\* String.prototype.replace with a g-flag pattern and a literal replacement.
RECURSIVE ReplaceFrom(_, _, _, _)
ReplaceFrom(pat, s, i, repl) ==
    IF i > Len(s)
    THEN << >>
    ELSE LET r == MatchFrom(pat, 1, s, i)
         IN IF r = 0 \/ r = i
            THEN << s[i] >> \o ReplaceFrom(pat, s, i + 1, repl)
            ELSE repl \o ReplaceFrom(pat, s, r, repl)

ReplaceAll(pat, s, repl) == ReplaceFrom(pat, s, 1, repl)

(***************************************************************************)
(* Character classes used by the source's regular expressions.             *)
(***************************************************************************)
LowerLetters ==
    << "a", "b", "c", "d", "e", "f", "g", "h", "i", "j", "k", "l", "m",
       "n", "o", "p", "q", "r", "s", "t", "u", "v", "w", "x", "y", "z" >>

UpperLetters ==
    << "A", "B", "C", "D", "E", "F", "G", "H", "I", "J", "K", "L", "M",
       "N", "O", "P", "Q", "R", "S", "T", "U", "V", "W", "X", "Y", "Z" >>

\* [A-Za-z]
Letters == {LowerLetters[i] : i \in 1..26} \cup {UpperLetters[i] : i \in 1..26}

\* The grave accent, which a TLA+ string cannot hold, under a name of its own.
Backtick == "GRAVE"

\* \s
Whitespace == {" ", "\t", "\n", "\r"}

\* [\s"'<>|*?]
PathStop == Whitespace \cup {"\"", "'", "<", ">", "|", "*", "?"}

(***************************************************************************)
(* Documents.  The text of a document is `reps` copies of a short line     *)
(* `unit`: large contents (over 1000 paths, over 1000 characters) are      *)
(* reached without enumerating their characters.  Every unit of Units ends *)
(* its line or holds no delimiter at all, so that no match of a safety     *)
(* pattern spans two copies and every count of the whole text is the count *)
(* of the unit times reps.                                                 *)
(***************************************************************************)
\* content.length
ContentLength(doc) == Len(doc.unit) * doc.reps

\* the number of occurrences of "\n" in the unit
Newlines(unit) == Cardinality({i \in 1..Len(unit) : unit[i] = "\n"})

\* content.split('\n').length
SplitLineCount(doc) == Newlines(doc.unit) * doc.reps + 1

\* (content.match(pat) ?? []).length
CountMatches(pat, doc) == Len(MatchAll(pat, doc.unit)) * doc.reps

(***************************************************************************)
(* utils/safety: estimatePathCount, countComplexPatterns.                  *)
(***************************************************************************)
\* /\/[^\s"'<>|*?]+/g
UnixPathPattern == << Lit("/"), PlusNot(PathStop) >>

\* /[A-Za-z]:\\[^\s"'<>|*?]+/g
WindowsPathPattern == << OneOf(Letters), Lit(":"), Lit("\\"), PlusNot(PathStop) >>

\* /\.\.?\/[^\s"'<>|*?]+/g
RelativePathPattern == << Lit("."), Opt({"."}), Lit("/"), PlusNot(PathStop) >>

\* /["'][^"']*["']/g
QuotedPattern == << OneOf({"\"", "'"}), StarNot({"\"", "'"}), OneOf({"\"", "'"}) >>

\* .filter((path) => path.includes('/') || path.includes('\\')).length
QuotedPathCount(doc) ==
    LET ms == MatchAll(QuotedPattern, doc.unit)
        hit(m) == \E i \in m[1]..(m[2] - 1) : doc.unit[i] \in {"/", "\\"}
    IN Cardinality({j \in 1..Len(ms) : hit(ms[j])}) * doc.reps

estimatePathCount(doc) ==
    CountMatches(UnixPathPattern, doc) + CountMatches(WindowsPathPattern, doc)
        + CountMatches(RelativePathPattern, doc) + QuotedPathCount(doc)

\* /\{[^{}]*\{[^{}]*\}[^{}]*\}/g
NestedObjectPattern ==
    << Lit("{"), StarNot({"{", "}"}), Lit("{"), StarNot({"{", "}"}), Lit("}"),
       StarNot({"{", "}"}), Lit("}") >>

\* /\[[^[\]]*\[[^[\]]*\][^[\]]*\]/g
NestedArrayPattern ==
    << Lit("["), StarNot({"[", "]"}), Lit("["), StarNot({"[", "]"}), Lit("]"),
       StarNot({"[", "]"}), Lit("]") >>

\* /\/[^/\n]+\/[gimuy]*/g
RegexLiteralPattern ==
    << Lit("/"), PlusNot({"/", "\n"}), Lit("/"), Star({"g", "i", "m", "u", "y"}) >>

\* /`[^`]*\$\{[^}]*\}[^`]*`/g
TemplateLiteralPattern ==
    << Lit(Backtick), StarNot({Backtick}), Lit("$"), Lit("{"), StarNot({"}"}),
       Lit("}"), StarNot({Backtick}), Lit(Backtick) >>

countComplexPatterns(doc) ==
    CountMatches(NestedObjectPattern, doc) + CountMatches(NestedArrayPattern, doc)
        + CountMatches(RegexLiteralPattern, doc)
        + CountMatches(TemplateLiteralPattern, doc)

(***************************************************************************)
(* Messages.  vscode-nls's localize(key, default, ...args) yields the      *)
(* template of `key` in the user's language with the arguments placed in   *)
(* it.  The template's own characters depend on the language: it is        *)
(* modelled as the single symbol `key`, followed by each argument after a  *)
(* space.  Timestamps (Date.now(), new Date()) are left out of the records.*)
(***************************************************************************)
DigitChars == << "0", "1", "2", "3", "4", "5", "6", "7", "8", "9" >>

\* String(n) for a natural number
RECURSIVE Digits(_)
Digits(n) ==
    IF n < 10 THEN << DigitChars[n + 1] >>
    ELSE Digits(n \div 10) \o << DigitChars[(n % 10) + 1] >>

RECURSIVE SpacedArgs(_)
SpacedArgs(args) ==
    IF args = << >> THEN << >>
    ELSE << " " >> \o Head(args) \o SpacedArgs(Tail(args))

Localize(key, args) == << key >> \o SpacedArgs(args)

\* String.prototype.includes
Includes(s, chars) == MatchAll(Lits(chars), s) # << >>

(***************************************************************************)
(* utils/errorHandling: createEnhancedError and its helpers.               *)
(***************************************************************************)
isErrorRecoverable(message, category) ==
    IF category \in {"parse", "parsing"} THEN TRUE
    ELSE IF category = "file-system"
    THEN Includes(message, << "p", "e", "r", "m", "i", "s", "s", "i", "o", "n" >>)
            \/ Includes(message, << "n", "e", "t", "w", "o", "r", "k" >>)
    ELSE IF category \in {"configuration", "validation"} THEN TRUE
    ELSE IF category = "safety" THEN FALSE
    ELSE IF category = "operational"
    THEN ~Includes(message, << "f", "a", "t", "a", "l" >>)
    ELSE FALSE

\* context is the optional file path (context?.filepath)
buildUserFriendlyMessage(message, category, context) ==
    IF category \in {"parse", "parsing"}
    THEN Localize("runtime.error.parse",
                  << Coalesce(context, << "unknown file" >>) >>)
    ELSE IF category = "file-system"
    THEN Localize("runtime.error.file-system", << message >>)
    ELSE IF category = "configuration"
    THEN Localize("runtime.error.configuration", << message >>)
    ELSE IF category = "validation"
    THEN Localize("runtime.error.validation", << message >>)
    ELSE IF category = "safety"
    THEN Localize("runtime.error.safety", << message >>)
    ELSE IF category = "operational"
    THEN Localize("runtime.error.operational", << message >>)
    ELSE Localize("runtime.error.unknown", << message >>)

buildErrorSuggestion(category) ==
    IF category \in {"parse", "parsing"}
    THEN Localize("runtime.error.parse.suggestion", << >>)
    ELSE IF category = "file-system"
    THEN Localize("runtime.error.file-system.suggestion", << >>)
    ELSE IF category = "configuration"
    THEN Localize("runtime.error.configuration.suggestion", << >>)
    ELSE IF category = "validation"
    THEN Localize("runtime.error.validation.suggestion", << >>)
    ELSE IF category = "safety"
    THEN Localize("runtime.error.safety.suggestion", << >>)
    ELSE IF category = "operational"
    THEN Localize("runtime.error.operational.suggestion", << >>)
    ELSE Localize("runtime.error.unknown.suggestion", << >>)

\* message: error.message; filepath: context?.filepath; options: the optional
\* recoverable, severity and suggestion.
createEnhancedError(message, category, filepath, options) ==
    LET userFriendlyMessage == buildUserFriendlyMessage(message, category, filepath)
    IN [category |-> category,
        message |-> message,
        userFriendlyMessage |-> userFriendlyMessage,
        userMessage |-> userFriendlyMessage,
        suggestion |-> Coalesce(options.suggestion, buildErrorSuggestion(category)),
        recoverable |-> Coalesce(options.recoverable,
                                 isErrorRecoverable(message, category)),
        severity |-> Coalesce(options.severity, "medium")]

(***************************************************************************)
(* config/config: getConfiguration reads the stored settings; a setting    *)
(* that is not stored (Undefined) takes its default.                       *)
(***************************************************************************)
readBoolean(stored, defaultValue) == Coalesce(stored, defaultValue)

\* A stored setting is whatever JSON value the settings file holds under the
\* key: a number, a string, a boolean or null.
JsonNumber(n) == [type |-> "number", n |-> n, text |-> << >>]

JsonString(text) == [type |-> "string", n |-> 0, text |-> text]

JsonBoolean(b) == [type |-> "boolean", n |-> IF b THEN 1 ELSE 0, text |-> << >>]

\* The number NaN, which compares unequal to and not above or below every
\* number.  It is kept apart from the numbers of the model by a value that
\* none of them takes.
NaN == -2147483647

DigitValue(c) == (CHOOSE d \in 1..10 : DigitChars[d] = c) - 1

IsDigits(text) == \A i \in 1..Len(text) : \E d \in 1..10 : DigitChars[d] = text[i]

RECURSIVE DecimalValue(_)
DecimalValue(text) ==
    IF text = << >> THEN 0
    ELSE 10 * DecimalValue(SubSeq(text, 1, Len(text) - 1)) + DigitValue(text[Len(text)])

\* StringToNumber for the texts of the model: blank is 0, an optionally signed
\* run of decimal digits is its value, anything else is NaN.
StringToNumber(text) ==
    IF \A i \in 1..Len(text) : text[i] \in Whitespace THEN 0
    ELSE IF IsDigits(text) THEN DecimalValue(text)
    ELSE IF Head(text) = "-" /\ Len(text) > 1 /\ IsDigits(Tail(text))
    THEN 0 - DecimalValue(Tail(text))
    ELSE IF Head(text) = "+" /\ Len(text) > 1 /\ IsDigits(Tail(text))
    THEN DecimalValue(Tail(text))
    ELSE NaN

\* Number(value)
ToNumber(json) ==
    IF json.type = "string" THEN StringToNumber(json.text) ELSE json.n

\* Math.max(a, b)
MathMax(a, b) == IF a = NaN \/ b = NaN THEN NaN ELSE Max(a, b)

\* Math.max(minValue, Number(config.get(key, defaultValue)))
readNumber(stored, defaultValue, minValue) ==
    MathMax(minValue, ToNumber(Coalesce(stored, JsonNumber(defaultValue))))

getConfiguration(st) ==
    [safetyEnabled |-> readBoolean(st.safetyEnabled, TRUE),
     safetyFileSizeWarnBytes |-> readNumber(st.fileSizeWarnBytes, 1000000, 1000),
     safetyLargeOutputLinesThreshold |->
         readNumber(st.largeOutputLinesThreshold, 50000, 100),
     safetyManyDocumentsThreshold |-> readNumber(st.manyDocumentsThreshold, 8, 1),
     performanceMaxDuration |-> readNumber(st.maxDuration, 5000, 1000),
     performanceMaxMemoryUsage |-> readNumber(st.maxMemoryUsage, 104857600, 1048576),
     performanceMaxCpuUsage |-> readNumber(st.maxCpuUsage, 1000000, 100000),
     performanceMinThroughput |-> readNumber(st.minThroughput, 1000, 100),
     performanceMaxCacheSize |-> readNumber(st.maxCacheSize, 1000, 100),
     copyToClipboardEnabled |-> readBoolean(st.copyToClipboardEnabled, FALSE),
     openResultsSideBySide |-> readBoolean(st.openResultsSideBySide, FALSE),
     postProcessOpenInNewFile |-> readBoolean(st.postProcessOpenInNewFile, FALSE),
     resolution |->
         [resolveSymlinks |-> readBoolean(st.resolveSymlinks, FALSE),
          resolveWorkspaceRelative |->
              readBoolean(st.resolveWorkspaceRelative, FALSE)],
     validation |->
         [enabled |-> readBoolean(st.validationEnabled, TRUE),
          checkExistence |-> readBoolean(st.checkExistence, TRUE),
          checkPermissions |-> readBoolean(st.checkPermissions, FALSE)]]

\* No setting stored: every setting at its default.
DefaultSettings ==
    [safetyEnabled |-> Undefined, fileSizeWarnBytes |-> Undefined,
     largeOutputLinesThreshold |-> Undefined, manyDocumentsThreshold |-> Undefined,
     maxDuration |-> Undefined, maxMemoryUsage |-> Undefined,
     maxCpuUsage |-> Undefined, minThroughput |-> Undefined,
     maxCacheSize |-> Undefined, copyToClipboardEnabled |-> Undefined,
     openResultsSideBySide |-> Undefined, postProcessOpenInNewFile |-> Undefined,
     resolveSymlinks |-> Undefined, resolveWorkspaceRelative |-> Undefined,
     validationEnabled |-> Undefined, checkExistence |-> Undefined,
     checkPermissions |-> Undefined, canonicalWarningShown |-> Undefined]

(***************************************************************************)
(* utils/safety: the safety gate.                                          *)
(***************************************************************************)
\* options.customThresholds?.fileSizeBytes
CustomFileSizeBytes(options) ==
    IF IsDefined(options.customThresholds)
    THEN options.customThresholds[1].fileSizeBytes ELSE Undefined

\* options.customThresholds?.lineCount
CustomLineCount(options) ==
    IF IsDefined(options.customThresholds)
    THEN options.customThresholds[1].lineCount ELSE Undefined

\* Mutant of buildFileSizeError: the block is reported as a warning, without
\* the error.
buildFileSizeErrorAsWarning(fileSize, threshold, fileName) ==
    LET message == Localize("runtime.safety.file-size",
                            << Digits(fileSize), Digits(threshold) >>)
    IN [proceed |-> FALSE, message |-> message, error |-> Undefined,
        warnings |-> << message >>]

buildFileSizeError(fileSize, threshold, fileName) ==
    LET error ==
            createEnhancedError(
                Localize("runtime.safety.file-size",
                         << Digits(fileSize), Digits(threshold) >>),
                "safety", Undefined,
                [recoverable |-> Some(FALSE), severity |-> Some("high"),
                 suggestion |->
                     Some(Localize("runtime.safety.file-size.suggestion", << >>))])
    IN [proceed |-> FALSE, message |-> error.userMessage, error |-> Some(error),
        warnings |-> << >>]

\* Mutant of collectSafetyWarnings: the custom line-count threshold is ignored
\* and the three checks are alternatives.
collectSafetyWarningsFirstOnly(doc, config, options) ==
    IF estimatePathCount(doc) > 1000
    THEN << Localize("runtime.safety.path-count.warning",
                     << Digits(estimatePathCount(doc)) >>) >>
    ELSE IF SplitLineCount(doc) > config.safetyLargeOutputLinesThreshold
    THEN << Localize("runtime.safety.line-count.warning",
                     << Digits(SplitLineCount(doc)),
                        Digits(config.safetyLargeOutputLinesThreshold) >>) >>
    ELSE << >>

collectSafetyWarnings(doc, config, options) ==
    LET lines == SplitLineCount(doc)
        lineCountThreshold ==
            Coalesce(CustomLineCount(options), config.safetyLargeOutputLinesThreshold)
        estimatedPaths == estimatePathCount(doc)
        complexPatterns == countComplexPatterns(doc)
        w1 == IF lines > lineCountThreshold
              THEN << Localize("runtime.safety.line-count.warning",
                               << Digits(lines), Digits(lineCountThreshold) >>) >>
              ELSE << >>
        w2 == IF estimatedPaths > 1000
              THEN << Localize("runtime.safety.path-count.warning",
                               << Digits(estimatedPaths) >>) >>
              ELSE << >>
        w3 == IF complexPatterns > 100
              THEN << Localize("runtime.safety.complex-patterns.warning",
                               << Digits(complexPatterns) >>) >>
              ELSE << >>
    IN w1 \o w2 \o w3

buildSafetyMessage(warnings) ==
    IF Len(warnings) = 0
    THEN Localize("runtime.safety.passed", << >>)
    ELSE Localize("runtime.safety.warnings", << Digits(Len(warnings)) >>)

\* Mutant of ExceedsFileSize: a content of exactly the threshold is blocked.
ExceedsFileSizeInclusive(length, threshold) == length >= threshold

\* The file-size test of handleSafetyChecks.
ExceedsFileSize(length, threshold) == length > threshold

\* The threshold handleSafetyChecks compares the content length with.
FileSizeThreshold(config, options) ==
    Coalesce(CustomFileSizeBytes(options), config.safetyFileSizeWarnBytes)

handleSafetyChecks(doc, config, options) ==
    IF ~config.safetyEnabled
    THEN [proceed |-> TRUE, message |-> << >>, error |-> Undefined,
          warnings |-> << >>]
    ELSE LET fileSizeThreshold == FileSizeThreshold(config, options)
         IN IF ExceedsFileSize(ContentLength(doc), fileSizeThreshold)
            THEN buildFileSizeError(ContentLength(doc), fileSizeThreshold,
                                    doc.fileName)
            ELSE LET warnings == collectSafetyWarnings(doc, config, options)
                 IN [proceed |-> TRUE, message |-> buildSafetyMessage(warnings),
                     error |-> Undefined, warnings |-> warnings]

\* Mutant of promptUserOverride: any button, 'Cancel' too, counts as consent.
promptUserOverrideAnyButton(choice) == choice # Undefined

\* await promptUserOverride(message): `choice` is the button the user picked in
\* the modal warning, Undefined when the dialog was dismissed.
promptUserOverride(choice) == choice = Some("Continue Anyway")

\* The condition under which handleSafetyChecksWithUserConfirmation prompts.
NeedsOverridePrompt(result, options) == ~result.proceed /\ options.allowOverride

\* The result handleSafetyChecksWithUserConfirmation returns after the prompt.
OverrideResult(result, shouldContinue) ==
    IF shouldContinue
    THEN [result EXCEPT !.proceed = TRUE,
                        !.message = Localize("runtime.safety.override.approved", << >>)]
    ELSE result

(***************************************************************************)
(* extraction/extract: extractPaths.                                       *)
(***************************************************************************)
determineFileType(languageId) ==
    CASE languageId = "csv" -> "csv"
      [] languageId = "toml" -> "toml"
      [] languageId \in {"dotenv", "env"} -> "dotenv"
      [] languageId \in {"javascript", "javascriptreact"} -> "javascript"
      [] languageId \in {"typescript", "typescriptreact"} -> "typescript"
      [] languageId \in {"json", "jsonc"} -> "json"
      [] languageId = "html" -> "html"
      [] languageId \in {"css", "scss", "less"} -> "css"
      [] OTHER -> "unknown"

\* The extractor extractPathsByFileType dispatches to, or "none" (default: []).
ExtractorFor(fileType) ==
    CASE fileType = "csv" -> "extractFromCsv"
      [] fileType = "toml" -> "extractFromToml"
      [] fileType = "dotenv" -> "extractFromDotenv"
      [] fileType \in {"javascript", "typescript"} -> "extractFromJavaScript"
      [] fileType = "json" -> "extractFromJson"
      [] fileType = "css" -> "extractFromCss"
      [] fileType = "html" -> "extractFromHtml"
      [] OTHER -> "none"

\* extractPathsByFileType(content, fileType): `found` is what the extractor of
\* the file type returns for the content.  The call is recorded in `calls`.
extractPathsByFileType(found, fileType) ==
    IF ExtractorFor(fileType) = "none"
    THEN [paths |-> << >>, calls |-> << >>]
    ELSE [paths |-> found, calls |-> << ExtractorFor(fileType) >>]

\* Mutant of buildUnsupportedFormatResult: the unsupported format is reported
\* as a recoverable parse warning.
buildUnsupportedFormatResultAsWarning(languageId) ==
    [success |-> FALSE,
     paths |-> << >>,
     errors |-> << [category |-> "parsing", severity |-> "warning",
                    message |-> << "Path extraction is not supported for ",
                                   languageId, " files." >>,
                    context |-> << "File type: ", languageId >>,
                    recoverable |-> TRUE, recoveryAction |-> "skip"] >>]

buildUnsupportedFormatResult(languageId) ==
    [success |-> FALSE,
     paths |-> << >>,
     errors |-> << [category |-> "format", severity |-> "info",
                    message |-> << "Path extraction is not supported for ",
                                   languageId,
                                   " files. Supported formats: CSV, TOML, ENV, JS, TS, JSON, HTML, CSS." >>,
                    context |-> << "File type: ", languageId >>,
                    recoverable |-> FALSE, recoveryAction |-> "none"] >>]

\* extractPaths(content, languageId).  `result` is the ExtractionResult, `calls`
\* the extractors that were run on the way.
extractPaths(found, languageId) ==
    LET fileType == determineFileType(languageId)
    IN IF fileType = "unknown"
       THEN [result |-> buildUnsupportedFormatResult(languageId), calls |-> << >>]
       ELSE LET x == extractPathsByFileType(found, fileType)
            IN [result |-> [success |-> TRUE, paths |-> x.paths, errors |-> << >>],
                calls |-> x.calls]

(***************************************************************************)
(* The format extractors and the canonical resolver are not among the      *)
(* source files at hand.  They are modelled from their contracts: an       *)
(* extractor returns an ordered sequence of Path objects, the empty one    *)
(* for an empty content; resolvePathCanonical returns the canonical form   *)
(* of the path or, when resolution fails or is switched off, the path      *)
(* itself, and never throws.                                               *)
(***************************************************************************)
MaxPaths == 2

PathValues == { << ".", "/", "a" >>, << "/", "b" >> }

RECURSIVE SeqsUpTo(_, _)
SeqsUpTo(S, n) ==
    IF n = 0 THEN { << >> }
    ELSE LET shorter == SeqsUpTo(S, n - 1)
         IN shorter \cup {Append(q, e) : q \in {r \in shorter : Len(r) = n - 1}, e \in S}

ExtractorOutputs(doc) ==
    IF ContentLength(doc) = 0
    THEN { << >> }
    ELSE SeqsUpTo({[value |-> v] : v \in PathValues}, MaxPaths)

Canonical(path) == << "/", "w", "s", "/" >> \o path

ResolveOutcomes(path, options) ==
    IF options.resolveSymlinks \/ options.resolveWorkspaceRelative
    THEN {path, Canonical(path)}
    ELSE {path}

(***************************************************************************)
(* commands/extract: the 'paths-le.extractPaths' command.                  *)
(***************************************************************************)
Note(kind, message) == [kind |-> kind, message |-> message]

\* handleSafetyChecks(document, config): options = {}
PlainOptions == [allowOverride |-> FALSE, customThresholds |-> Undefined]

handleExtractionFailure(result) ==
    IF result.errors = << >>
    THEN Note("showError", << "Failed to extract paths: Unknown error" >>)
    ELSE IF result.errors[1].category = "format"
    THEN Note("showInfo", result.errors[1].message)
    ELSE Note("showError", << "Failed to extract paths: " >> \o result.errors[1].message)

CanonicalEnabled(config) ==
    config.resolution.resolveSymlinks \/ config.resolution.resolveWorkspaceRelative

\* Mutant of CanonicalWarningShown: the acknowledgment is never found.
CanonicalWarningNeverShown(st) == FALSE

\* context.get('_internal.canonicalWarningShown', false)
CanonicalWarningShown(st) == Coalesce(st.canonicalWarningShown, FALSE)

ResolveOptions(config) ==
    [resolveSymlinks |-> config.resolution.resolveSymlinks,
     resolveWorkspaceRelative |-> config.resolution.resolveWorkspaceRelative]

\* Mutant of StoreResolved: results are collected in the order in which the
\* resolutions complete.
StoreResolvedInArrivalOrder(slots, i, resolved) ==
    LET free == {j \in 1..Len(slots) : slots[j] = Undefined}
        first == CHOOSE j \in free : \A k \in free : j <= k
    IN [slots EXCEPT ![first] = Some(resolved)]

\* Promise.all(paths.map(async ...)): the value the i-th callback returns is
\* the i-th element of the array the promise resolves to.
StoreResolved(slots, i, resolved) == [slots EXCEPT ![i] = Some(resolved)]

\* formattedPaths.join('\n')
RECURSIVE JoinLines(_)
JoinLines(lines) ==
    IF lines = << >> THEN << >>
    ELSE IF Len(lines) = 1 THEN lines[1]
    ELSE lines[1] \o << "\n" >> \o JoinLines(Tail(lines))

(***************************************************************************)
(* State.                                                                  *)
(***************************************************************************)
VARIABLES
    document,     \* the active editor's document: fileName, languageId, unit, reps
    settings,     \* the stored settings of the 'paths-le' section
    sPc,          \* safety gate: "idle", or "prompting" inside promptUserOverride
    sCall,        \* safety gate: the call waiting for the user's answer
    sReturn,      \* safety gate: what the last call returned
    sApproved,    \* history: the files whose override the user has approved
    xReturn,      \* extractPaths: the last call and what it returned
    activeEditor, \* whether vscode.window.activeTextEditor is set
    cPc,          \* extract command: "idle", "warning", "resolving", "display"
    cRun,         \* extract command: the locals and outcome of the last invocation
    cNotes,       \* extract command: the notifier calls of the last invocation
    cProgress,    \* the status bar's progress indicator, Undefined when hidden
    cSlots,       \* extract command: the results Promise.all has collected
    cCounts,      \* extract command: resolvedCount and fallbackCount
    cDisplay,     \* extract command: where displayResults put the paths
    eCall,        \* error handling: the last operation called and its error
    eOut,         \* error handling: the lines that operation wrote, sink by sink
    vPc,          \* validatePaths: "idle", "running", "returned" or "rejected"
    vCall,        \* validatePaths: the paths and the settings of the call
    vResults,     \* validatePaths: the results pushed so far
    vStats,       \* history: how the stat of each path handled so far ended
    fCall,        \* a function on its own: the function called and its arguments
    fReturn       \* a function on its own: what the call returned

envVars == << document, settings >>

safetyVars == << sPc, sCall, sReturn, sApproved >>

cmdVars == << activeEditor, cPc, cRun, cNotes, cProgress, cSlots, cCounts, cDisplay >>

errVars == << eCall, eOut >>

valVars == << vPc, vCall, vResults, vStats >>

fnVars == << fCall, fReturn >>

vars ==
    << document, settings, sPc, sCall, sReturn, sApproved, xReturn, activeEditor,
       cPc, cRun, cNotes, cProgress, cSlots, cCounts, cDisplay, eCall, eOut,
       vPc, vCall, vResults, vStats, fCall, fReturn >>

(***************************************************************************)
(* The documents and settings the model draws from.                        *)
(***************************************************************************)
Doc(fileName, languageId, unit, reps) ==
    [fileName |-> fileName, languageId |-> languageId, unit |-> unit, reps |-> reps]

\* <<unit, reps>>: a one-line text of 1000 and of 1001 characters, a short
\* file, an empty one, 1001 lines with one path each, 101 lines with one
\* nested object each, and 1001 lines with a path, a regex literal and a
\* nested object each.
Contents ==
    { << << "x" >>, 0 >>,
      << << "x" >>, 1000 >>,
      << << "x" >>, 1001 >>,
      << << "/", "a", "\n" >>, 1 >>,
      << << "/", "a", "\n" >>, 1001 >>,
      << << "{", "{", "}", "}", "\n" >>, 101 >>,
      << << "/", "a", "/", "g", " ", "{", "{", "}", "}", "\n" >>, 1001 >> }

SafetyFiles == {"app.js", "lib.js"}

SafetyDocuments == {Doc(f, "javascript", c[1], c[2]) : f \in SafetyFiles, c \in Contents}

StoredFileSizes == {Undefined, Some(JsonNumber(500)), Some(JsonNumber(3003))}

StoredLineThresholds == {Undefined, Some(JsonNumber(1))}

SafetyOptions ==
    LET custom == {Undefined}
                  \cup {Some([fileSizeBytes |-> f, lineCount |-> l]) :
                            f \in {Undefined, Some(0), Some(1001)},
                            l \in {Undefined, Some(0)}}
    IN {[allowOverride |-> a, customThresholds |-> c] : a \in BOOLEAN, c \in custom}

OverrideChoices == {Undefined, Some("Continue Anyway"), Some("Cancel")}

(***************************************************************************)
(* The safety gate called on the active document.                          *)
(***************************************************************************)
FnVarsInit ==
    /\ fCall = Undefined
    /\ fReturn = Undefined

ErrVarsInit ==
    /\ eCall = Undefined
    /\ eOut = << >>

ValVarsInit ==
    /\ vPc = "idle"
    /\ vCall = Undefined
    /\ vResults = << >>
    /\ vStats = << >>

CmdVarsInit ==
    /\ activeEditor = TRUE
    /\ cPc = "idle"
    /\ cRun = Undefined
    /\ cNotes = << >>
    /\ cProgress = Undefined
    /\ cSlots = << >>
    /\ cCounts = [resolved |-> 0, fallback |-> 0]
    /\ cDisplay = Undefined

SafetyVarsInit ==
    /\ sPc = "idle"
    /\ sCall = Undefined
    /\ sReturn = Undefined
    /\ sApproved = {}

\* The user opens or edits a document.
OpenSafetyDocument ==
    /\ sPc = "idle"
    /\ \E d \in SafetyDocuments : document' = d
    /\ sReturn' = Undefined
    /\ UNCHANGED << settings, sPc, sCall, sApproved >>
    /\ UNCHANGED << xReturn, cmdVars, errVars, valVars, fnVars >>

\* The user changes the safety settings.
ChangeSafetySettings ==
    /\ sPc = "idle"
    /\ \E e \in {Undefined, Some(FALSE)}, f \in StoredFileSizes,
          l \in StoredLineThresholds :
           settings' = [settings EXCEPT !.safetyEnabled = e,
                                        !.fileSizeWarnBytes = f,
                                        !.largeOutputLinesThreshold = l]
    /\ sReturn' = Undefined
    /\ UNCHANGED << document, sPc, sCall, sApproved >>
    /\ UNCHANGED << xReturn, cmdVars, errVars, valVars, fnVars >>

Returned(fn, options, result, prompted, choice) ==
    Some([fn |-> fn, options |-> options, result |-> result, prompted |-> prompted,
          choice |-> choice, priorApproved |-> document.fileName \in sApproved])

\* handleSafetyChecks(document, getConfiguration(), options)
CallHandleSafetyChecks ==
    /\ sPc = "idle"
    /\ \E options \in SafetyOptions :
           sReturn' = Returned("handleSafetyChecks", options,
                               handleSafetyChecks(document, getConfiguration(settings),
                                                  options),
                               FALSE, Undefined)
    /\ UNCHANGED << document, settings, sPc, sCall, sApproved >>
    /\ UNCHANGED << xReturn, cmdVars, errVars, valVars, fnVars >>

\* handleSafetyChecksWithUserConfirmation, up to its await of the prompt.
CallWithUserConfirmation ==
    /\ sPc = "idle"
    /\ \E options \in SafetyOptions :
           LET result == handleSafetyChecks(document, getConfiguration(settings),
                                            options)
           IN IF NeedsOverridePrompt(result, options)
              THEN /\ sPc' = "prompting"
                   /\ sCall' = Some([options |-> options, result |-> result])
                   /\ sReturn' = Undefined
              ELSE /\ sReturn' = Returned("handleSafetyChecksWithUserConfirmation",
                                          options, result, FALSE, Undefined)
                   /\ UNCHANGED << sPc, sCall >>
    /\ UNCHANGED << document, settings, sApproved >>
    /\ UNCHANGED << xReturn, cmdVars, errVars, valVars, fnVars >>

\* The user answers (or dismisses) the modal warning and the call returns.
AnswerOverridePrompt ==
    /\ sPc = "prompting"
    /\ \E choice \in OverrideChoices :
           LET shouldContinue == promptUserOverride(choice)
           IN /\ sReturn' = Returned("handleSafetyChecksWithUserConfirmation",
                                     sCall[1].options,
                                     OverrideResult(sCall[1].result, shouldContinue),
                                     TRUE, choice)
              /\ sApproved' = IF choice = Some("Continue Anyway")
                              THEN sApproved \cup {document.fileName}
                              ELSE sApproved
    /\ sPc' = "idle"
    /\ sCall' = Undefined
    /\ UNCHANGED << document, settings >>
    /\ UNCHANGED << xReturn, cmdVars, errVars, valVars, fnVars >>

SafetyInit ==
    /\ document \in SafetyDocuments
    /\ settings = DefaultSettings
    /\ SafetyVarsInit
    /\ xReturn = Undefined
    /\ CmdVarsInit
    /\ ErrVarsInit
    /\ ValVarsInit
    /\ FnVarsInit

SafetyNext ==
    \/ OpenSafetyDocument
    \/ ChangeSafetySettings
    \/ CallHandleSafetyChecks
    \/ CallWithUserConfirmation
    \/ AnswerOverridePrompt

SafetySpec == SafetyInit /\ [][SafetyNext]_vars

(***************************************************************************)
(* Claims about the safety gate (checked under SafetySpec).                *)
(***************************************************************************)
\* The configuration and threshold in force for the call that just returned.
CurrentConfig == getConfiguration(settings)

\* The effective file-size threshold as the claims state it: the custom
\* threshold if one is given, else the configured one.
EffectiveFileSizeThreshold(options) ==
    IF IsDefined(options.customThresholds)
       /\ IsDefined(options.customThresholds[1].fileSizeBytes)
    THEN options.customThresholds[1].fileSizeBytes[1]
    ELSE CurrentConfig.safetyFileSizeWarnBytes

EffectiveLineThreshold(options) ==
    IF IsDefined(options.customThresholds)
       /\ IsDefined(options.customThresholds[1].lineCount)
    THEN options.customThresholds[1].lineCount[1]
    ELSE CurrentConfig.safetyLargeOutputLinesThreshold

ReturnedBy(fn) == IsDefined(sReturn) /\ sReturn[1].fn = fn

\* C1: with safety enabled, handleSafetyChecks returns proceed:false, with an
\* error of category safety, severity high and recoverable false, for every
\* content longer than the effective file-size threshold, and never blocks a
\* content whose length is equal to or below that threshold.
C1_FileSizeHardBlock ==
    (ReturnedBy("handleSafetyChecks") /\ CurrentConfig.safetyEnabled) =>
        LET r == sReturn[1].result
            threshold == EffectiveFileSizeThreshold(sReturn[1].options)
        IN IF ContentLength(document) > threshold
           THEN /\ ~r.proceed
                /\ IsDefined(r.error)
                /\ r.error[1].category = "safety"
                /\ r.error[1].severity = "high"
                /\ ~r.error[1].recoverable
           ELSE r.proceed

\* A call with a custom threshold has blocked a content above it.
C1_Witness ==
    /\ ReturnedBy("handleSafetyChecks")
    /\ CurrentConfig.safetyEnabled
    /\ IsDefined(CustomFileSizeBytes(sReturn[1].options))
    /\ ContentLength(document) > EffectiveFileSizeThreshold(sReturn[1].options)
    /\ ~sReturn[1].result.proceed

\* C2: every SafetyResult returned by handleSafetyChecks or by
\* handleSafetyChecksWithUserConfirmation with proceed false has its error set
\* and no warnings.
C2_BlockedResultShape ==
    IsDefined(sReturn) =>
        (~sReturn[1].result.proceed =>
            /\ IsDefined(sReturn[1].result.error)
            /\ sReturn[1].result.warnings = << >>)

\* The confirmation wrapper has returned a blocked result after the user
\* declined the override.
C2_Witness ==
    /\ ReturnedBy("handleSafetyChecksWithUserConfirmation")
    /\ sReturn[1].prompted
    /\ ~sReturn[1].result.proceed

\* C3: with safety enabled and the content not above the file-size threshold,
\* handleSafetyChecks returns proceed:true however many soft checks fire, with
\* at least one warning whenever the number of lines exceeds the line-count
\* threshold.
C3_SoftChecksNeverBlock ==
    (/\ ReturnedBy("handleSafetyChecks")
     /\ CurrentConfig.safetyEnabled
     /\ ContentLength(document) <= EffectiveFileSizeThreshold(sReturn[1].options)) =>
        /\ sReturn[1].result.proceed
        /\ (SplitLineCount(document) > EffectiveLineThreshold(sReturn[1].options) =>
                Len(sReturn[1].result.warnings) >= 1)

\* All three soft checks have fired on one content and the call proceeded.
C3_Witness ==
    /\ ReturnedBy("handleSafetyChecks")
    /\ CurrentConfig.safetyEnabled
    /\ SplitLineCount(document) > EffectiveLineThreshold(sReturn[1].options)
    /\ estimatePathCount(document) > 1000
    /\ countComplexPatterns(document) > 100
    /\ sReturn[1].result.proceed
    /\ Len(sReturn[1].result.warnings) = 3

\* The call of the confirmation wrapper that just returned had a hard block to
\* override: its safety check blocked and allowOverride was set.
OverridableBlock ==
    /\ ReturnedBy("handleSafetyChecksWithUserConfirmation")
    /\ sReturn[1].options.allowOverride
    /\ CurrentConfig.safetyEnabled
    /\ ContentLength(document) > EffectiveFileSizeThreshold(sReturn[1].options)

\* C4 as claimed: once the user has approved an override for a document, no
\* later call of handleSafetyChecksWithUserConfirmation (allowOverride set) for
\* that document prompts again, and each such call proceeds.
C4_OverrideRemembered ==
    /\ sPc = "prompting" => document.fileName \notin sApproved
    /\ (/\ ReturnedBy("handleSafetyChecksWithUserConfirmation")
        /\ sReturn[1].options.allowOverride
        /\ sReturn[1].priorApproved) =>
           (sReturn[1].result.proceed /\ ~sReturn[1].prompted)

\* C4 amended: nothing is recorded. Every call with allowOverride set whose
\* safety check hard-blocks prompts the user, also for a document whose override
\* was approved before, and it proceeds exactly when the user picks
\* 'Continue Anyway' in that prompt; a call with nothing to override never
\* prompts and returns the safety check's own result.
C4_OverridePerCall ==
    ReturnedBy("handleSafetyChecksWithUserConfirmation") =>
        /\ sReturn[1].prompted = OverridableBlock
        /\ OverridableBlock =>
               (sReturn[1].result.proceed
                    = (sReturn[1].choice = Some("Continue Anyway")))
        /\ ~OverridableBlock =>
               sReturn[1].result
                   = handleSafetyChecks(document, CurrentConfig, sReturn[1].options)

\* A document whose override was approved earlier was prompted for again, and
\* the user declined this time.
C4_Witness ==
    /\ OverridableBlock
    /\ sReturn[1].priorApproved
    /\ sReturn[1].prompted
    /\ ~sReturn[1].result.proceed

(***************************************************************************)
(* extractPaths on its own: every call draws a content and a language id.  *)
(***************************************************************************)
LanguageIds ==
    {"csv", "toml", "dotenv", "env", "javascript", "javascriptreact", "typescript",
     "typescriptreact", "json", "jsonc", "html", "css", "scss", "less",
     "plaintext", "python", "markdown", "yaml", "unknown", ""}

CallExtractPaths ==
    \E c \in Contents, languageId \in LanguageIds :
        \E found \in ExtractorOutputs(Doc("input", languageId, c[1], c[2])) :
            LET x == extractPaths(found, languageId)
            IN /\ xReturn' = Some([content |-> c, languageId |-> languageId,
                                   result |-> x.result, calls |-> x.calls])
               /\ UNCHANGED << envVars, safetyVars, cmdVars, errVars, valVars, fnVars >>

ExtractPathsInit ==
    /\ document = Doc("app.js", "javascript", << "x" >>, 0)
    /\ settings = DefaultSettings
    /\ SafetyVarsInit
    /\ xReturn = Undefined
    /\ CmdVarsInit
    /\ ErrVarsInit
    /\ ValVarsInit
    /\ FnVarsInit

ExtractPathsNext == CallExtractPaths

ExtractPathsSpec == ExtractPathsInit /\ [][ExtractPathsNext]_vars

\* C5: for every content, a language id that resolves to file type 'unknown'
\* makes extractPaths return success false, no paths and exactly one error,
\* of category 'format', severity 'info' and not recoverable, and no
\* extractor is run.
C5_UnsupportedFormatResult ==
    \A r \in {xReturn[i] : i \in 1..Len(xReturn)} :
        determineFileType(r.languageId) = "unknown" =>
            /\ r.result.success = FALSE
            /\ Len(r.result.paths) = 0
            /\ Len(r.result.errors) = 1
            /\ r.result.errors[1].category = "format"
            /\ r.result.errors[1].severity = "info"
            /\ r.result.errors[1].recoverable = FALSE
            /\ r.calls = << >>

C5_Witness ==
    /\ IsDefined(xReturn)
    /\ xReturn[1].languageId = "python"
    /\ xReturn[1].content = << << "/", "a", "\n" >>, 1001 >>
    /\ xReturn[1].result.success = FALSE

(***************************************************************************)
(* The 'paths-le.extractPaths' command as a process.  The handler runs     *)
(* without interruption up to its first dialog or asynchronous operation;  *)
(* cPc is where it is suspended.                                           *)
(***************************************************************************)
ExtractDocuments ==
    { Doc("app.js", "javascript", << "/", "a", "\n" >>, 1),
      Doc("app.js", "javascript", << "x" >>, 0),
      Doc("app.js", "javascript", << "x" >>, 1001),
      Doc("notes.txt", "plaintext", << "/", "a", "\n" >>, 1),
      Doc("notes.txt", "plaintext", << "x" >>, 1001) }

ExtractSettings ==
    { [DefaultSettings EXCEPT !.safetyEnabled = e, !.fileSizeWarnBytes = f,
                              !.resolveSymlinks = r, !.openResultsSideBySide = o,
                              !.postProcessOpenInNewFile = n,
                              !.copyToClipboardEnabled = n]
        : e \in {Undefined, Some(FALSE)}, f \in {Undefined, Some(JsonNumber(500))},
          r \in {Undefined, Some(TRUE)}, o \in {Undefined, Some(TRUE)},
          n \in {Undefined, Some(TRUE)} }

\* What the extractor of a supported document hands to the command: nothing,
\* one path or two.
CommandFinds(doc) ==
    {found \in ExtractorOutputs(doc) :
        \/ found = << >>
        \/ found = << [value |-> << ".", "/", "a" >>] >>
        \/ found = << [value |-> << ".", "/", "a" >>], [value |-> << "/", "b" >>] >>}

NoCounts == [resolved |-> 0, fallback |-> 0]

\* The locals of an invocation that has just read the editor and the settings;
\* `order` is the history of the indices whose resolution has completed.
NewRun ==
    [document |-> document, settings |-> settings, gate |-> Undefined,
     extraction |-> Undefined, calls |-> << >>, canonicalEnabled |-> FALSE,
     asked |-> FALSE, choice |-> Undefined, order |-> << >>,
     formatted |-> Undefined, outcome |-> "running"]

Config == getConfiguration(settings)

\* Mutant of Gate: the file type is resolved first and the gate is consulted
\* for supported formats only.
GateAfterFileType ==
    IF determineFileType(document.languageId) = "unknown"
    THEN [proceed |-> TRUE, message |-> << >>, error |-> Undefined, warnings |-> << >>]
    ELSE handleSafetyChecks(document, Config, PlainOptions)

\* const safetyResult = handleSafetyChecks(document, config)
Gate == handleSafetyChecks(document, Config, PlainOptions)

Extracted(x) ==
    [NewRun EXCEPT !.gate = Some(Gate), !.extraction = Some(x.result),
                   !.calls = x.calls]

PendingSlots(paths) == [i \in 1..Len(paths) |-> Undefined]

\* if (!editor) { showWarning('No active editor found'); return; }
ExtractWithoutEditor ==
    /\ cPc = "idle"
    /\ ~activeEditor
    /\ cRun' = Some([NewRun EXCEPT !.outcome = "no-editor"])
    /\ cNotes' = << Note("showWarning", << "No active editor found" >>) >>
    /\ cDisplay' = Undefined
    /\ UNCHANGED << envVars, safetyVars, errVars, valVars, fnVars, xReturn, activeEditor, cPc, cProgress,
                    cSlots, cCounts >>

\* if (!safetyResult.proceed) { showWarning(safetyResult.message); return; }
ExtractBlockedBySafety ==
    /\ cPc = "idle"
    /\ activeEditor
    /\ ~Gate.proceed
    /\ cRun' = Some([NewRun EXCEPT !.gate = Some(Gate), !.outcome = "safety-blocked"])
    /\ cNotes' = << Note("showWarning", Gate.message) >>
    /\ cDisplay' = Undefined
    /\ UNCHANGED << envVars, safetyVars, errVars, valVars, fnVars, xReturn, activeEditor, cPc, cProgress,
                    cSlots, cCounts >>

\* if (!result.success) { handleExtractionFailure(result, deps); return; }
ExtractUnsuccessful ==
    /\ cPc = "idle"
    /\ activeEditor
    /\ Gate.proceed
    /\ \E found \in CommandFinds(document) :
           LET x == extractPaths(found, document.languageId)
           IN /\ ~x.result.success
              /\ cRun' = Some([Extracted(x) EXCEPT !.outcome = "extraction-failed"])
              /\ cNotes' = << handleExtractionFailure(x.result) >>
    /\ cDisplay' = Undefined
    /\ UNCHANGED << envVars, safetyVars, errVars, valVars, fnVars, xReturn, activeEditor, cPc, cProgress,
                    cSlots, cCounts >>

\* if (result.paths.length === 0) { showInfo('No paths found ...'); return; }
ExtractNothingFound ==
    /\ cPc = "idle"
    /\ activeEditor
    /\ Gate.proceed
    /\ \E found \in CommandFinds(document) :
           LET x == extractPaths(found, document.languageId)
           IN /\ x.result.success
              /\ Len(x.result.paths) = 0
              /\ cRun' = Some([Extracted(x) EXCEPT !.outcome = "no-paths"])
    /\ cNotes' = << Note("showInfo", << "No paths found in the current document" >>) >>
    /\ cDisplay' = Undefined
    /\ UNCHANGED << envVars, safetyVars, errVars, valVars, fnVars, xReturn, activeEditor, cPc, cProgress,
                    cSlots, cCounts >>

\* Canonical resolution off: resolvePathsIfNeeded returns paths.map(p => p.value).
ExtractPlain ==
    /\ cPc = "idle"
    /\ activeEditor
    /\ Gate.proceed
    /\ ~CanonicalEnabled(Config)
    /\ \E found \in CommandFinds(document) :
           LET x == extractPaths(found, document.languageId)
           IN /\ x.result.success
              /\ Len(x.result.paths) > 0
              /\ cRun' = Some([Extracted(x) EXCEPT
                                   !.formatted = Some([i \in 1..Len(x.result.paths) |->
                                                          x.result.paths[i].value])])
    /\ cNotes' = << >>
    /\ cDisplay' = Undefined
    /\ cProgress' = Some("Extracting paths...")
    /\ cPc' = "display"
    /\ UNCHANGED << envVars, safetyVars, errVars, valVars, fnVars, xReturn, activeEditor, cSlots, cCounts >>

\* Canonical resolution on, warning not yet acknowledged: the dialog is shown.
ExtractAskCanonical ==
    /\ cPc = "idle"
    /\ activeEditor
    /\ Gate.proceed
    /\ CanonicalEnabled(Config)
    /\ ~CanonicalWarningShown(settings)
    /\ \E found \in CommandFinds(document) :
           LET x == extractPaths(found, document.languageId)
           IN /\ x.result.success
              /\ Len(x.result.paths) > 0
              /\ cRun' = Some([Extracted(x) EXCEPT !.canonicalEnabled = TRUE,
                                                   !.asked = TRUE])
    /\ cNotes' = << >>
    /\ cDisplay' = Undefined
    /\ cProgress' = Some("Resolving canonical paths...")
    /\ cPc' = "warning"
    /\ UNCHANGED << envVars, safetyVars, errVars, valVars, fnVars, xReturn, activeEditor, cSlots, cCounts >>

\* Canonical resolution on, warning acknowledged before: the resolutions start.
ExtractCanonicalAcknowledged ==
    /\ cPc = "idle"
    /\ activeEditor
    /\ Gate.proceed
    /\ CanonicalEnabled(Config)
    /\ CanonicalWarningShown(settings)
    /\ \E found \in CommandFinds(document) :
           LET x == extractPaths(found, document.languageId)
           IN /\ x.result.success
              /\ Len(x.result.paths) > 0
              /\ cRun' = Some([Extracted(x) EXCEPT !.canonicalEnabled = TRUE])
              /\ cSlots' = PendingSlots(x.result.paths)
    /\ cNotes' = << >>
    /\ cDisplay' = Undefined
    /\ cProgress' = Some("Extracting paths...")
    /\ cCounts' = NoCounts
    /\ cPc' = "resolving"
    /\ UNCHANGED << envVars, safetyVars, errVars, valVars, fnVars, xReturn, activeEditor >>

CanonicalWarningChoices ==
    {Some("Continue"), Some("Disable and Continue"), Some("Learn More"), Undefined}

\* Mutant of AnswerCanonicalWarning: 'Disable and Continue' turns off
\* resolveSymlinks only and records the acknowledgment.
AnswerCanonicalWarningKeepingWorkspaceRelative ==
    /\ cPc = "warning"
    /\ \E choice \in CanonicalWarningChoices :
           /\ cRun' = Some([cRun[1] EXCEPT
                                !.choice = choice,
                                !.outcome = IF choice = Some("Continue")
                                            THEN "running" ELSE "warning-declined"])
           /\ IF choice = Some("Disable and Continue")
              THEN /\ settings' = [settings EXCEPT !.resolveSymlinks = Some(FALSE),
                                                   !.canonicalWarningShown = Some(TRUE)]
                   /\ cNotes' = Append(cNotes,
                                       Note("showInfo",
                                            << "Canonical path resolution disabled for security" >>))
                   /\ cPc' = "idle"
                   /\ UNCHANGED << cProgress, cSlots, cCounts >>
              ELSE IF choice = Some("Continue")
              THEN /\ settings' = [settings EXCEPT !.canonicalWarningShown = Some(TRUE)]
                   /\ cProgress' = Some("Extracting paths...")
                   /\ cSlots' = PendingSlots(cRun[1].extraction[1].paths)
                   /\ cCounts' = NoCounts
                   /\ cPc' = "resolving"
                   /\ UNCHANGED cNotes
              ELSE /\ cPc' = "idle"
                   /\ UNCHANGED << settings, cNotes, cProgress, cSlots, cCounts >>
    /\ UNCHANGED << document, safetyVars, errVars, valVars, fnVars, xReturn, activeEditor, cDisplay >>

\* The rest of handleCanonicalResolutionWarning, once the user has answered
\* the security warning (Undefined: the dialog was dismissed), and what the
\* command does with the answer.
AnswerCanonicalWarning ==
    /\ cPc = "warning"
    /\ \E choice \in CanonicalWarningChoices :
           /\ cRun' = Some([cRun[1] EXCEPT
                                !.choice = choice,
                                !.outcome = IF choice = Some("Continue")
                                            THEN "running" ELSE "warning-declined"])
           /\ IF choice = Some("Disable and Continue")
              THEN /\ settings' = [settings EXCEPT !.resolveSymlinks = Some(FALSE),
                                                   !.resolveWorkspaceRelative = Some(FALSE)]
                   /\ cNotes' = Append(cNotes,
                                       Note("showInfo",
                                            << "Canonical path resolution disabled for security" >>))
                   /\ cPc' = "idle"
                   /\ UNCHANGED << cProgress, cSlots, cCounts >>
              ELSE IF choice = Some("Continue")
              THEN /\ settings' = [settings EXCEPT !.canonicalWarningShown = Some(TRUE)]
                   /\ cProgress' = Some("Extracting paths...")
                   /\ cSlots' = PendingSlots(cRun[1].extraction[1].paths)
                   /\ cCounts' = NoCounts
                   /\ cPc' = "resolving"
                   /\ UNCHANGED cNotes
              ELSE /\ cPc' = "idle"
                   /\ UNCHANGED << settings, cNotes, cProgress, cSlots, cCounts >>
    /\ UNCHANGED << document, safetyVars, errVars, valVars, fnVars, xReturn, activeEditor, cDisplay >>

\* One callback of paths.map(async ...) completes: resolvePathCanonical has
\* answered for the i-th path, in whatever order the resolutions finish.
ResolveOnePath ==
    /\ cPc = "resolving"
    /\ \E i \in 1..Len(cSlots) :
           /\ cSlots[i] = Undefined
           /\ LET value == cRun[1].extraction[1].paths[i].value
                  config == getConfiguration(cRun[1].settings)
              IN \E resolved \in ResolveOutcomes(value, ResolveOptions(config)) :
                     /\ cSlots' = StoreResolved(cSlots, i, resolved)
                     /\ cRun' = Some([cRun[1] EXCEPT !.order = Append(@, i)])
                     /\ cCounts' = IF resolved # value
                                   THEN [cCounts EXCEPT !.resolved = @ + 1]
                                   ELSE [cCounts EXCEPT !.fallback = @ + 1]
    /\ UNCHANGED << envVars, safetyVars, errVars, valVars, fnVars, xReturn, activeEditor, cPc, cNotes,
                    cProgress, cDisplay >>

\* Promise.all resolves: the status bar reports the counts and
\* resolvePathsIfNeeded returns the collected array.
FinishResolution ==
    /\ cPc = "resolving"
    /\ \A i \in 1..Len(cSlots) : IsDefined(cSlots[i])
    /\ cRun' = Some([cRun[1] EXCEPT
                         !.formatted = Some([i \in 1..Len(cSlots) |-> cSlots[i][1]])])
    /\ cProgress' = IF cCounts.resolved > 0
                    THEN Some(<< "Resolved ", Digits(cCounts.resolved),
                                 " canonical paths" >>)
                    ELSE IF cCounts.fallback > 0
                    THEN Some("Canonical resolution failed, using original paths")
                    ELSE cProgress
    /\ cSlots' = << >>
    /\ cCounts' = NoCounts
    /\ cPc' = "display"
    /\ UNCHANGED << envVars, safetyVars, errVars, valVars, fnVars, xReturn, activeEditor, cNotes, cDisplay >>

\* Mutant of DisplayResults: postProcess.openInNewFile is not looked at.
DisplayResultsWithoutNewFile ==
    /\ cPc = "display"
    /\ LET run == cRun[1]
           config == getConfiguration(run.settings)
           pathsContent == JoinLines(run.formatted[1])
           pathCount == Len(run.extraction[1].paths)
           mode == IF config.openResultsSideBySide THEN "side-by-side"
                   ELSE "replace"
       IN /\ document' = IF mode = "replace"
                         THEN Doc(run.document.fileName, run.document.languageId,
                                  pathsContent, 1)
                         ELSE Doc("Untitled-1", "plaintext", pathsContent, 1)
          /\ cDisplay' = Some([mode |-> mode, content |-> pathsContent,
                               clipboard |-> IF config.copyToClipboardEnabled
                                             THEN Some(pathsContent) ELSE Undefined])
          /\ cNotes' = Append(cNotes,
                              Note("showInfo",
                                   << "Extracted " >> \o Digits(pathCount)
                                       \o << " paths from document" >>))
          /\ cRun' = Some([run EXCEPT !.outcome = "displayed"])
    /\ cProgress' = Undefined
    /\ cPc' = "idle"
    /\ UNCHANGED << settings, safetyVars, errVars, valVars, fnVars, xReturn, activeEditor, cSlots, cCounts >>

\* displayResults, showSuccessMessage and the final hideProgress.
DisplayResults ==
    /\ cPc = "display"
    /\ LET run == cRun[1]
           config == getConfiguration(run.settings)
           pathsContent == JoinLines(run.formatted[1])
           pathCount == Len(run.extraction[1].paths)
           mode == IF config.openResultsSideBySide THEN "side-by-side"
                   ELSE IF config.postProcessOpenInNewFile THEN "new-file"
                   ELSE "replace"
       IN /\ document' = IF mode = "replace"
                         THEN Doc(run.document.fileName, run.document.languageId,
                                  pathsContent, 1)
                         ELSE Doc("Untitled-1", "plaintext", pathsContent, 1)
          /\ cDisplay' = Some([mode |-> mode, content |-> pathsContent,
                               clipboard |-> IF config.copyToClipboardEnabled
                                             THEN Some(pathsContent) ELSE Undefined])
          /\ cNotes' = Append(cNotes,
                              Note("showInfo",
                                   << "Extracted " >> \o Digits(pathCount)
                                       \o << " paths from document" >>))
          /\ cRun' = Some([run EXCEPT !.outcome = "displayed"])
    /\ cProgress' = Undefined
    /\ cPc' = "idle"
    /\ UNCHANGED << settings, safetyVars, errVars, valVars, fnVars, xReturn, activeEditor, cSlots, cCounts >>

ForgetRun ==
    /\ cRun' = Undefined
    /\ cNotes' = << >>
    /\ cDisplay' = Undefined

\* The user opens another document in the editor.
OpenExtractDocument ==
    /\ cPc = "idle"
    /\ \E d \in ExtractDocuments : document' = d
    /\ activeEditor' = TRUE
    /\ ForgetRun
    /\ UNCHANGED << settings, safetyVars, errVars, valVars, fnVars, xReturn, cPc, cProgress, cSlots, cCounts >>

\* The user closes the last editor.
CloseEditor ==
    /\ cPc = "idle"
    /\ activeEditor
    /\ activeEditor' = FALSE
    /\ ForgetRun
    /\ UNCHANGED << envVars, safetyVars, errVars, valVars, fnVars, xReturn, cPc, cProgress, cSlots, cCounts >>

\* The user changes the settings the command reads.
ChangeExtractSettings ==
    /\ cPc = "idle"
    /\ \E st \in ExtractSettings :
           settings' = [st EXCEPT !.canonicalWarningShown = settings.canonicalWarningShown]
    /\ ForgetRun
    /\ UNCHANGED << document, safetyVars, errVars, valVars, fnVars, xReturn, activeEditor, cPc, cProgress,
                    cSlots, cCounts >>

ExtractInit ==
    /\ document \in ExtractDocuments
    /\ settings \in ExtractSettings
    /\ SafetyVarsInit
    /\ xReturn = Undefined
    /\ CmdVarsInit
    /\ ErrVarsInit
    /\ ValVarsInit
    /\ FnVarsInit

ExtractNext ==
    \/ ExtractWithoutEditor
    \/ ExtractBlockedBySafety
    \/ ExtractUnsuccessful
    \/ ExtractNothingFound
    \/ ExtractPlain
    \/ ExtractAskCanonical
    \/ ExtractCanonicalAcknowledged
    \/ AnswerCanonicalWarning
    \/ ResolveOnePath
    \/ FinishResolution
    \/ DisplayResults
    \/ OpenExtractDocument
    \/ CloseEditor
    \/ ChangeExtractSettings

ExtractSpec == ExtractInit /\ [][ExtractNext]_vars

(***************************************************************************)
(* resolvePathsIfNeeded on its own: the command has extracted the paths of *)
(* a document with canonical resolution enabled and acknowledged, and the  *)
(* resolutions are about to complete, in any order.                        *)
(***************************************************************************)
ResolveSettings ==
    { [DefaultSettings EXCEPT !.resolveSymlinks = r, !.resolveWorkspaceRelative = w,
                              !.canonicalWarningShown = Some(TRUE)]
        : r \in {Undefined, Some(TRUE)}, w \in {Undefined, Some(TRUE)} }

ResolveInit ==
    /\ document = Doc("app.js", "javascript", << "/", "a", "\n" >>, 1)
    /\ settings \in {st \in ResolveSettings : CanonicalEnabled(getConfiguration(st))}
    /\ SafetyVarsInit
    /\ xReturn = Undefined
    /\ ErrVarsInit
    /\ ValVarsInit
    /\ FnVarsInit
    /\ activeEditor = TRUE
    /\ cPc = "resolving"
    /\ \E found \in ExtractorOutputs(document) :
           /\ Len(found) > 0
           /\ cRun = Some([Extracted(extractPaths(found, document.languageId))
                               EXCEPT !.canonicalEnabled = TRUE])
           /\ cSlots = PendingSlots(found)
    /\ cNotes = << >>
    /\ cProgress = Some("Extracting paths...")
    /\ cCounts = NoCounts
    /\ cDisplay = Undefined

ResolveNext ==
    \/ ResolveOnePath
    \/ FinishResolution

ResolveSpec == ResolveInit /\ [][ResolveNext]_vars

(***************************************************************************)
(* Claims about the extract command (checked under ExtractSpec, the one    *)
(* about resolvePathsIfNeeded under ResolveSpec).                          *)
(***************************************************************************)
\* The invocations that found an editor and have returned.
ReturnedRuns ==
    {cRun[i] : i \in {j \in 1..Len(cRun) :
                         /\ cPc = "idle"
                         /\ cRun[j].outcome # "no-editor"}}

Unsupported(run) == determineFileType(run.document.languageId) = "unknown"

GateOf(run) == handleSafetyChecks(run.document, getConfiguration(run.settings), PlainOptions)

FormatErrorReported(run) ==
    /\ run.outcome = "extraction-failed"
    /\ IsDefined(run.extraction)
    /\ Len(run.extraction[1].errors) = 1
    /\ run.extraction[1].errors[1].category = "format"
    /\ cNotes = << Note("showInfo", run.extraction[1].errors[1].message) >>

SafetyBlockReported(run) ==
    /\ run.outcome = "safety-blocked"
    /\ run.extraction = Undefined
    /\ run.calls = << >>
    /\ cNotes = << Note("showWarning", GateOf(run).message) >>

\* C6 as stated: for a document with an unsupported language id the command
\* reports the format error whatever the document's size, and never a safety
\* block.
C6_FormatErrorWhateverSize ==
    \A run \in ReturnedRuns :
        Unsupported(run) => FormatErrorReported(run) /\ run.outcome # "safety-blocked"

\* C6 as the command behaves: the safety gate runs before the file type is
\* resolved.  A document with an unsupported language id gets the format
\* error exactly when the gate lets it proceed; when the gate blocks it, the
\* safety block is what is reported and extractPaths is not called.
C6_SafetyGateBeforeFileType ==
    \A run \in ReturnedRuns :
        Unsupported(run) =>
            IF GateOf(run).proceed
            THEN FormatErrorReported(run) /\ run.calls = << >>
            ELSE SafetyBlockReported(run)

C6_Witness ==
    \E run \in ReturnedRuns :
        /\ Unsupported(run)
        /\ ContentLength(run.document) = 1001
        /\ ~GateOf(run).proceed
        /\ run.outcome = "safety-blocked"

\* C10: with canonical resolution enabled the output of resolvePathsIfNeeded
\* has one entry per input path, each at the index of its input, whatever the
\* order in which the resolvePathCanonical calls complete.
C10_OutputKeepsInputOrder ==
    \A run \in {cRun[i] : i \in 1..Len(cRun)} :
        run.canonicalEnabled =>
            LET paths == run.extraction[1].paths
                options == ResolveOptions(getConfiguration(run.settings))
            IN /\ cPc = "resolving" =>
                      /\ Len(cSlots) = Len(paths)
                      /\ \A i \in 1..Len(cSlots) :
                             IsDefined(cSlots[i]) =>
                                 cSlots[i][1] \in ResolveOutcomes(paths[i].value, options)
               /\ IsDefined(run.formatted) =>
                      /\ Len(run.formatted[1]) = Len(paths)
                      /\ \A i \in 1..Len(paths) :
                             run.formatted[1][i] \in ResolveOutcomes(paths[i].value, options)

C10_Witness ==
    /\ IsDefined(cRun)
    /\ cRun[1].canonicalEnabled
    /\ IsDefined(cRun[1].formatted)
    /\ cRun[1].order = << 2, 1 >>
    /\ cRun[1].extraction[1].paths[1].value # cRun[1].extraction[1].paths[2].value
    /\ cRun[1].formatted[1][1] = Canonical(cRun[1].extraction[1].paths[1].value)
    /\ cRun[1].formatted[1][2] = cRun[1].extraction[1].paths[2].value

(***************************************************************************)
(* utils/errorHandling: sanitizeErrorMessage and the places where errors   *)
(* are written: the ErrorLogger's output channel and the console the       *)
(* ErrorNotifier and handleError write to.                                 *)
(***************************************************************************)
UpperOf(c) ==
    IF \E i \in 1..26 : LowerLetters[i] = c
    THEN UpperLetters[CHOOSE i \in 1..26 : LowerLetters[i] = c]
    ELSE c

LowerOf(c) ==
    IF \E i \in 1..26 : UpperLetters[i] = c
    THEN LowerLetters[CHOOSE i \in 1..26 : UpperLetters[i] = c]
    ELSE c

\* The literal characters of `chars` under the i flag.
LitsIgnoreCase(chars) == [i \in 1..Len(chars) |-> OneOf({LowerOf(chars[i]), UpperOf(chars[i])})]

\* /\/Users\/[^/]+\//g
MacHomePattern ==
    Lits(<< "/", "U", "s", "e", "r", "s", "/" >>) \o << PlusNot({"/"}), Lit("/") >>

\* /\/home\/[^/]+\//g
UnixHomePattern ==
    Lits(<< "/", "h", "o", "m", "e", "/" >>) \o << PlusNot({"/"}), Lit("/") >>

\* /C:\\Users\\[^\\]+\\/g
WindowsHomePattern ==
    Lits(<< "C", ":", "\\", "U", "s", "e", "r", "s", "\\" >>)
        \o << PlusNot({"\\"}), Lit("\\") >>

\* /<word>[=:]\s*[^\s]+/gi
SecretPattern(word) ==
    LitsIgnoreCase(word) \o << OneOf({"=", ":"}), Star(Whitespace), PlusNot(Whitespace) >>

Stars == << "*", "*", "*" >>

sanitizeErrorMessage(message) ==
    LET a == ReplaceAll(MacHomePattern, message,
                        << "/", "U", "s", "e", "r", "s", "/" >> \o Stars \o << "/" >>)
        b == ReplaceAll(UnixHomePattern, a,
                        << "/", "h", "o", "m", "e", "/" >> \o Stars \o << "/" >>)
        c == ReplaceAll(WindowsHomePattern, b,
                        << "C", ":", "\\", "U", "s", "e", "r", "s", "\\" >>
                            \o Stars \o << "\\" >>)
        d == ReplaceAll(SecretPattern(<< "p", "a", "s", "s", "w", "o", "r", "d" >>), c,
                        << "p", "a", "s", "s", "w", "o", "r", "d", "=" >> \o Stars)
        e == ReplaceAll(SecretPattern(<< "t", "o", "k", "e", "n" >>), d,
                        << "t", "o", "k", "e", "n", "=" >> \o Stars)
    IN ReplaceAll(SecretPattern(<< "k", "e", "y" >>), e, << "k", "e", "y", "=" >> \o Stars)

\* One line written to a sink.  `given` is the text the caller had in hand
\* for the line, `body` the text it wrote after the sink's fixed prefix.
Line(sink, prefix, given, body) ==
    [sink |-> sink, prefix |-> prefix, given |-> given, body |-> body]

\* handleError(error)
handleError(error) ==
    LET sanitizedMessage == sanitizeErrorMessage(error.userFriendlyMessage)
    IN << Line(IF error.recoverable THEN "console.warn" ELSE "console.error",
               "[Paths-LE] ", error.userFriendlyMessage, sanitizedMessage) >>

\* createErrorLogger(outputChannel).logError(error); the timestamp is part of
\* the prefix.
LoggerLogError(error, stack) ==
    LET text == << error.category, ": " >> \o error.message
    IN << Line("outputChannel", "[timestamp] [ERROR] ", text, text) >>
       \o (IF IsDefined(stack)
           THEN << Line("outputChannel", "Stack: ", stack[1], stack[1]) >>
           ELSE << >>)

\* `${message}${details ? `\nDetails: ${details}` : ''}`
WithDetails(message, details) ==
    IF details = << >> THEN message ELSE message \o << "\nDetails: " >> \o details

\* createErrorNotifier(): showError, showWarning and showInfo
NotifierShow(kind, message, details) ==
    LET text == WithDetails(message, details)
    IN IF kind = "showError"
       THEN << Line("console.error", "[Paths-LE Error] ", text, text) >>
       ELSE IF kind = "showWarning"
       THEN << Line("console.warn", "[Paths-LE Warning] ", text, text) >>
       ELSE << Line("console.info", "[Paths-LE Info] ", text, text) >>

\* Mutant of shouldShowError: only the silent level hides a low-severity error.
shouldShowErrorUnlessSilent(error, notificationsLevel) ==
    \/ error.severity = "high"
    \/ error.severity = "medium" /\ notificationsLevel # "silent"
    \/ error.severity = "low" /\ notificationsLevel # "silent"

shouldShowError(error, notificationsLevel) ==
    \/ error.severity = "high"
    \/ error.severity = "medium" /\ notificationsLevel # "silent"
    \/ error.severity = "low" /\ notificationsLevel = "all"

\* createErrorHandler(deps).handle(error)
HandlerHandle(error, stack, notificationsLevel) ==
    LoggerLogError(error, stack)
        \o (IF ~shouldShowError(error, notificationsLevel)
            THEN << >>
            ELSE IF error.severity = "high"
            THEN NotifierShow("showError", error.userMessage, error.suggestion)
            ELSE NotifierShow("showWarning", error.userMessage, error.suggestion))

\* createErrorHandler(deps).logError(error)
HandlerLogError(error, stack) == LoggerLogError(error, stack)

\* createErrorHandler(deps).notifyUser(error)
HandlerNotifyUser(error) ==
    IF error.severity = "high"
    THEN NotifierShow("showError", error.userMessage, error.suggestion)
    ELSE IF error.severity = "medium"
    THEN NotifierShow("showWarning", error.userMessage, error.suggestion)
    ELSE NotifierShow("showInfo", error.userMessage, error.suggestion)

(***************************************************************************)
(* The error-handling layer: an error built by createEnhancedError is in   *)
(* hand, and every step is one call of one of the layer's operations on    *)
(* it; eOut holds what that call wrote.                                    *)
(***************************************************************************)
ErrorMessages ==
    { << "o", "o", "p", "s" >>,
      << "n", "o", " ", "/", "h", "o", "m", "e", "/", "a", "l", "/", "f" >>,
      << "/", "U", "s", "e", "r", "s", "/", "a", "l", "/", "f" >>,
      << "b", "a", "d", " ", "T", "o", "k", "e", "n", ":", " ", "x", "1" >> }

ErrorCategories ==
    {"parse", "validation", "safety", "operational", "file-system", "configuration",
     "parsing"}

ErrorOptions ==
    [recoverable : {Undefined, Some(TRUE), Some(FALSE)},
     severity : {Undefined, Some("low"), Some("high")},
     suggestion : {Undefined}]

ErrorFilepaths == {Undefined, Some(<< "a", ".", "j", "s" >>)}

\* error.stack of `new Error(message)`, or none
StacksOf(message) ==
    {Undefined, Some(<< "Error: " >> \o message \o << "\n    at extract" >>)}

NotificationsLevels == {"all", "important", "silent"}

\* The errors an operation can be handed, with the stack of the original
\* error and the notification level the handler was created with.
ErrorInputs ==
    UNION { { [fn |-> "none", error |-> createEnhancedError(m, c, f, o),
               stack |-> stack, notificationsLevel |-> level]
                : stack \in StacksOf(m), level \in NotificationsLevels }
              : m \in ErrorMessages, c \in ErrorCategories, f \in ErrorFilepaths,
                o \in ErrorOptions }

Called(fn) == Some([eCall[1] EXCEPT !.fn = fn])

CallHandlerHandle ==
    /\ eCall' = Called("ErrorHandler.handle")
    /\ eOut' = HandlerHandle(eCall[1].error, eCall[1].stack, eCall[1].notificationsLevel)
    /\ UNCHANGED << envVars, safetyVars, xReturn, cmdVars, valVars, fnVars >>

CallHandlerLogError ==
    /\ eCall' = Called("ErrorHandler.logError")
    /\ eOut' = HandlerLogError(eCall[1].error, eCall[1].stack)
    /\ UNCHANGED << envVars, safetyVars, xReturn, cmdVars, valVars, fnVars >>

CallHandlerNotifyUser ==
    /\ eCall' = Called("ErrorHandler.notifyUser")
    /\ eOut' = HandlerNotifyUser(eCall[1].error)
    /\ UNCHANGED << envVars, safetyVars, xReturn, cmdVars, valVars, fnVars >>

CallLoggerLogError ==
    /\ eCall' = Called("ErrorLogger.logError")
    /\ eOut' = LoggerLogError(eCall[1].error, eCall[1].stack)
    /\ UNCHANGED << envVars, safetyVars, xReturn, cmdVars, valVars, fnVars >>

CallHandleError ==
    /\ eCall' = Called("handleError")
    /\ eOut' = handleError(eCall[1].error)
    /\ UNCHANGED << envVars, safetyVars, xReturn, cmdVars, valVars, fnVars >>

ErrorInit ==
    /\ document = Doc("app.js", "javascript", << "x" >>, 0)
    /\ settings = DefaultSettings
    /\ SafetyVarsInit
    /\ xReturn = Undefined
    /\ CmdVarsInit
    /\ eCall \in {Some(e) : e \in ErrorInputs}
    /\ eOut = << >>
    /\ ValVarsInit
    /\ FnVarsInit

ErrorNext ==
    \/ CallHandlerHandle
    \/ CallHandlerLogError
    \/ CallHandlerNotifyUser
    \/ CallLoggerLogError
    \/ CallHandleError

ErrorSpec == ErrorInit /\ [][ErrorNext]_vars

\* C7 as stated: every line the error-handling layer writes to the logger or
\* shows through the notifier is the sanitizeErrorMessage of the text it was
\* written from, whatever the severity and the recoverability of the error.
C7_EverythingWrittenIsSanitized ==
    \A i \in 1..Len(eOut) : eOut[i].body = sanitizeErrorMessage(eOut[i].given)

\* What does hold: handleError writes only sanitized text.
HandleErrorWritesSanitized ==
    \A call \in {eCall[i] : i \in 1..Len(eCall)} :
        call.fn = "handleError" =>
            /\ Len(eOut) = 1
            /\ eOut[1].body = sanitizeErrorMessage(call.error.userFriendlyMessage)
            /\ sanitizeErrorMessage(eOut[1].body) = eOut[1].body

(***************************************************************************)
(* utils/pathValidation is not among the source files at hand; its         *)
(* functions are modelled from their documented contracts and from         *)
(* pathValidation.test.ts.                                                 *)
(***************************************************************************)
MaxPathLength == 260

InvalidPathCharacters == {"<", ">", ":", "\"", "|", "?", "*"}

ReservedNames ==
    { << "C", "O", "N" >>, << "P", "R", "N" >>, << "A", "U", "X" >>, << "N", "U", "L" >> }
        \cup { << "C", "O", "M", DigitChars[d + 1] >> : d \in 1..9 }
        \cup { << "L", "P", "T", DigitChars[d + 1] >> : d \in 1..9 }

SensitivePrefixes ==
    { << "/", "e", "t", "c", "/" >>, << "/", "s", "y", "s", "/" >>,
      << "C", ":", "\\", "W", "i", "n", "d", "o", "w", "s", "\\" >> }

\* path.split(/[\\/]/)
RECURSIVE SplitSegments(_, _)
SplitSegments(path, segment) ==
    IF path = << >> THEN << segment >>
    ELSE IF Head(path) \in {"/", "\\"}
    THEN << segment >> \o SplitSegments(Tail(path), << >>)
    ELSE SplitSegments(Tail(path), Append(segment, Head(path)))

UpperText(text) == [i \in 1..Len(text) |-> UpperOf(text[i])]

StartsWith(text, prefix) ==
    /\ Len(text) >= Len(prefix)
    /\ SubSeq(text, 1, Len(prefix)) = prefix

HasInvalidCharacters(path) == \E i \in 1..Len(path) : path[i] \in InvalidPathCharacters

HasReservedName(path) ==
    LET segments == SplitSegments(path, << >>)
    IN \E i \in 1..Len(segments) : UpperText(segments[i]) \in ReservedNames

HasTraversal(path) == Includes(path, << ".", "." >>)

IsBlank(path) == \A i \in 1..Len(path) : path[i] \in Whitespace

validatePathFormat(path) ==
    LET errors ==
            IF path = << >>
            THEN << "Path is empty" >>
            ELSE (IF HasTraversal(path)
                  THEN << "Path contains traversal sequences" >> ELSE << >>)
                 \o (IF HasInvalidCharacters(path)
                     THEN << "Path contains invalid characters" >> ELSE << >>)
                 \o (IF HasReservedName(path)
                     THEN << "Path contains reserved names" >> ELSE << >>)
                 \o (IF Len(path) > MaxPathLength
                     THEN << "Path exceeds maximum length" >> ELSE << >>)
    IN [isValid |-> errors = << >>, errors |-> errors]

isValidPath(path) ==
    /\ ~IsBlank(path)
    /\ ~HasInvalidCharacters(path)
    /\ ~HasReservedName(path)

\* Mutant of isPathSafe: only the sensitive locations are looked for.
isPathSafeSensitiveOnly(path) ==
    \A prefix \in SensitivePrefixes : ~StartsWith(path, prefix)

isPathSafe(path) ==
    /\ ~HasTraversal(path)
    /\ \A prefix \in SensitivePrefixes : ~StartsWith(path, prefix)

\* a scheme followed by "://"
UrlPattern == << Plus(Letters), Lit(":"), Lit("/"), Lit("/") >>

detectPathType(path) ==
    IF MatchFrom(UrlPattern, 1, path, 1) # 0 THEN "url"
    ELSE IF StartsWith(path, << "/" >>)
            \/ (Len(path) >= 2 /\ path[1] \in Letters /\ path[2] = ":")
    THEN "absolute"
    ELSE "relative"

(***************************************************************************)
(* utils/validation: validatePaths.                                        *)
(***************************************************************************)
\* errors.join(', ')
RECURSIVE JoinErrors(_)
JoinErrors(errors) ==
    IF errors = << >> THEN << >>
    ELSE IF Len(errors) = 1 THEN << errors[1] >>
    ELSE << errors[1], ", " >> \o JoinErrors(Tail(errors))

buildInvalidResult(path, error) ==
    [path |-> path, status |-> "invalid", error |-> Some(error), exists |-> Undefined,
     permissions |-> Undefined, resolvedPath |-> Undefined]

buildValidResult(path, exists) ==
    [path |-> path, status |-> "valid", error |-> Undefined, exists |-> Some(exists),
     permissions |-> Undefined, resolvedPath |-> Undefined]

buildValidResultWithResolution(path, resolvedPath, config) ==
    [path |-> path, status |-> "valid", error |-> Undefined, exists |-> Some(TRUE),
     permissions |-> IF config.validation.checkPermissions
                     THEN Some("read-write") ELSE Undefined,
     resolvedPath |-> IF resolvedPath # path THEN Some(resolvedPath) ELSE Undefined]

\* The values resolvePathIfNeeded(path, config) can return.
resolvePathIfNeeded(path, config) ==
    IF ~config.validation.enabled
    THEN {path}
    ELSE IF ~config.resolution.resolveSymlinks
            /\ ~config.resolution.resolveWorkspaceRelative
    THEN {path}
    ELSE ResolveOutcomes(path, ResolveOptions(config))

\* await vscode.workspace.fs.stat(uri): the file is there, or the stat fails
\* (the promise rejects, e.g. FileNotFound).
StatOutcomes == {"ok", "fails"}

Fulfilled(result, stat) == [threw |-> FALSE, result |-> Some(result), stat |-> stat]

Rejected(stat) == [threw |-> TRUE, result |-> Undefined, stat |-> stat]

\* checkPathExistence(path, resolvedPath, config), the stat ending as `stat`
checkPathExistence(path, resolvedPath, config, stat) ==
    IF stat = "fails"
    THEN Rejected(stat)
    ELSE Fulfilled(buildValidResultWithResolution(path, resolvedPath, config), stat)

\* Mutant of validatePath: the type of the path is looked at before its format.
validatePathTypeFirst(path, config, resolvedPath, stat) ==
    LET formatValidation == validatePathFormat(path)
    IN IF detectPathType(path) = "url"
       THEN Fulfilled(buildValidResult(path, TRUE), "none")
       ELSE IF ~formatValidation.isValid
       THEN Fulfilled(buildInvalidResult(path, JoinErrors(formatValidation.errors)),
                      "none")
       ELSE IF ~isValidPath(path)
       THEN Fulfilled(buildInvalidResult(
                          path, << "Path contains invalid characters or reserved names" >>),
                      "none")
       ELSE IF ~config.validation.checkExistence
       THEN Fulfilled(buildValidResultWithResolution(path, resolvedPath, config), "none")
       ELSE checkPathExistence(path, resolvedPath, config, stat)

\* validatePath(path, config): `resolvedPath` is what resolvePathIfNeeded
\* answers and `stat` how the stat ends, should the call get that far.
validatePath(path, config, resolvedPath, stat) ==
    LET formatValidation == validatePathFormat(path)
    IN IF ~formatValidation.isValid
       THEN Fulfilled(buildInvalidResult(path, JoinErrors(formatValidation.errors)),
                      "none")
       ELSE IF ~isValidPath(path)
       THEN Fulfilled(buildInvalidResult(
                          path, << "Path contains invalid characters or reserved names" >>),
                      "none")
       ELSE IF detectPathType(path) = "url"
       THEN Fulfilled(buildValidResult(path, TRUE), "none")
       ELSE IF ~config.validation.checkExistence
       THEN Fulfilled(buildValidResultWithResolution(path, resolvedPath, config), "none")
       ELSE checkPathExistence(path, resolvedPath, config, stat)

MaxBatch == 2

ValidatePathValues ==
    { << >>,
      << "/", "a" >>,
      << ".", "/", "a" >>,
      << ".", ".", "/", "a" >>,
      << "/", "e", "t", "c", "/", "p" >>,
      << "a", "<", "b" >>,
      << "c", "o", "n" >>,
      << "s", ":", "/", "/", "h" >> }

ValidateSettings ==
    { [DefaultSettings EXCEPT !.validationEnabled = v, !.checkExistence = e,
                              !.checkPermissions = p, !.resolveSymlinks = r]
        : v \in {Undefined, Some(FALSE)}, e \in {Undefined, Some(FALSE)},
          p \in {Undefined, Some(TRUE)}, r \in {Undefined, Some(TRUE)} }

\* validatePaths(paths, config) is called: const results = []
StartValidatePaths ==
    /\ vPc # "running"
    /\ vResults' = << >>
    /\ vStats' = << >>
    /\ vPc' = IF Len(vCall[1].paths) = 0 THEN "returned" ELSE "running"
    /\ UNCHANGED << envVars, safetyVars, xReturn, cmdVars, errVars, vCall, fnVars >>

\* One turn of the loop: await validatePath(path, config); results.push(result).
\* A rejection of validatePath leaves the loop and rejects validatePaths.
ValidateNextPath ==
    /\ vPc = "running"
    /\ LET i == Len(vResults) + 1
           path == vCall[1].paths[i]
           config == getConfiguration(settings)
       IN \E resolvedPath \in resolvePathIfNeeded(path, config), stat \in StatOutcomes :
              LET r == validatePath(path, config, resolvedPath, stat)
              IN /\ vStats' = Append(vStats, r.stat)
                 /\ IF r.threw
                    THEN /\ vPc' = "rejected"
                         /\ UNCHANGED vResults
                    ELSE /\ vResults' = Append(vResults, r.result[1])
                         /\ vPc' = IF i = Len(vCall[1].paths)
                                   THEN "returned" ELSE "running"
    /\ UNCHANGED << envVars, safetyVars, xReturn, cmdVars, errVars, vCall, fnVars >>

ValidateInit ==
    /\ document = Doc("app.js", "javascript", << "x" >>, 0)
    /\ settings \in ValidateSettings
    /\ SafetyVarsInit
    /\ xReturn = Undefined
    /\ CmdVarsInit
    /\ ErrVarsInit
    /\ FnVarsInit
    /\ vPc = "idle"
    /\ vCall \in {Some([paths |-> ps]) : ps \in SeqsUpTo(ValidatePathValues, MaxBatch)}
    /\ vResults = << >>
    /\ vStats = << >>

ValidateNext ==
    \/ StartValidatePaths
    \/ ValidateNextPath

ValidateSpec == ValidateInit /\ [][ValidateNext]_vars

\* C8 as stated: a failed stat is reported as the path not existing and never
\* fails validatePaths, which returns a result for every path in input order.
C8_StatFailureReportedAsMissing ==
    /\ vPc # "rejected"
    /\ vPc = "returned" =>
           /\ Len(vResults) = Len(vCall[1].paths)
           /\ \A i \in 1..Len(vResults) :
                  /\ vResults[i].path = vCall[1].paths[i]
                  /\ vStats[i] = "fails" => vResults[i].exists = Some(FALSE)

\* C9 as stated: a path is reported valid only if it passes validatePathFormat
\* and isPathSafe.
C9_ValidOnlyIfSafe ==
    \A i \in 1..Len(vResults) :
        vResults[i].status = "valid" =>
            /\ validatePathFormat(vResults[i].path).isValid
            /\ isPathSafe(vResults[i].path)

\* ---------------------------------------------------------------------------
\* getConfiguration on its own: the numeric threshold settings.

\* The numeric settings: the key a value is stored under, the field of the
\* configuration it is returned in, its default and its floor.
NumericSettings ==
    {[key |-> "fileSizeWarnBytes", field |-> "safetyFileSizeWarnBytes",
      defaultValue |-> 1000000, minValue |-> 1000],
     [key |-> "largeOutputLinesThreshold", field |-> "safetyLargeOutputLinesThreshold",
      defaultValue |-> 50000, minValue |-> 100],
     [key |-> "manyDocumentsThreshold", field |-> "safetyManyDocumentsThreshold",
      defaultValue |-> 8, minValue |-> 1],
     [key |-> "maxDuration", field |-> "performanceMaxDuration",
      defaultValue |-> 5000, minValue |-> 1000],
     [key |-> "maxMemoryUsage", field |-> "performanceMaxMemoryUsage",
      defaultValue |-> 104857600, minValue |-> 1048576],
     [key |-> "maxCpuUsage", field |-> "performanceMaxCpuUsage",
      defaultValue |-> 1000000, minValue |-> 100000],
     [key |-> "minThroughput", field |-> "performanceMinThroughput",
      defaultValue |-> 1000, minValue |-> 100],
     [key |-> "maxCacheSize", field |-> "performanceMaxCacheSize",
      defaultValue |-> 1000, minValue |-> 100]}

\* What a settings file can hold under a numeric key.
StoredNumbers(s) ==
    {Undefined,
     Some(JsonNumber(0)), Some(JsonNumber(0 - 5)),
     Some(JsonNumber(s.minValue - 1)), Some(JsonNumber(s.minValue)),
     Some(JsonNumber(s.minValue + 1)), Some(JsonNumber(s.defaultValue)),
     Some(JsonNumber(2 * s.defaultValue)),
     Some(JsonString(<< >>)), Some(JsonString(<< "5", "0", "0" >>)),
     Some(JsonString(<< "-", "5" >>)), Some(JsonString(<< "a", "b", "c" >>)),
     Some(JsonString(<< "1", "M", "B" >>)),
     Some(JsonBoolean(TRUE)), Some(JsonBoolean(FALSE))}

ConfigSettings ==
    {[DefaultSettings EXCEPT ![s.key] = v] :
        s \in NumericSettings, v \in UNION {StoredNumbers(t) : t \in NumericSettings}}

CallGetConfiguration ==
    /\ fCall = Some([fn |-> "none"])
    /\ fCall' = Some([fn |-> "getConfiguration"])
    /\ fReturn' = Some(getConfiguration(settings))
    /\ UNCHANGED << envVars, safetyVars, xReturn, cmdVars, errVars, valVars >>

ConfigInit ==
    /\ document = Doc("app.js", "javascript", << "x" >>, 0)
    /\ settings \in ConfigSettings
    /\ SafetyVarsInit
    /\ xReturn = Undefined
    /\ CmdVarsInit
    /\ ErrVarsInit
    /\ ValVarsInit
    /\ fCall = Some([fn |-> "none"])
    /\ fReturn = Undefined

ConfigNext == CallGetConfiguration

ConfigSpec == ConfigInit /\ [][ConfigNext]_vars

\* C11 as stated: whatever value is stored under a numeric threshold setting,
\* the value getConfiguration returns for it is a number that is not below
\* the setting's floor.
C11_NeverBelowFloor ==
    IsDefined(fReturn) =>
        \A s \in NumericSettings :
            /\ fReturn[1][s.field] # NaN
            /\ fReturn[1][s.field] >= s.minValue

\* For stored numbers the returned value is the larger of the stored number
\* and the floor.
C11_StoredNumbersAreFloored ==
    IsDefined(fReturn) =>
        \A s \in NumericSettings :
            LET stored == settings[s.key]
            IN  /\ stored = Undefined => fReturn[1][s.field] = s.defaultValue
                /\ IsDefined(stored) /\ stored[1].type = "number" =>
                       fReturn[1][s.field] = Max(s.minValue, stored[1].n)

(***************************************************************************)
(* utils/errorHandling: the error constructors and the classification     *)
(* rules.                                                                  *)
(***************************************************************************)
ErrorSeverities == {"info", "warning", "error", "critical"}

RecoveryActions == {"skip", "retry", "abort", "fallback"}

\* createError(props); now is Date.now()
createError(props, now) ==
    [category |-> props.category,
     severity |-> props.severity,
     message |-> props.message,
     recoverable |-> props.recoverable,
     recoveryAction |-> props.recoveryAction,
     timestamp |-> now]

\* Mutant of createParseError: the error carries no recovery action.
createParseErrorWithoutAction(props, now) ==
    [category |-> "parsing",
     severity |-> "warning",
     recoverable |-> TRUE,
     recoveryAction |-> "none",
     timestamp |-> now,
     message |-> props.message,
     filepath |-> props.filepath,
     position |-> props.position]

\* createParseError(props): the defaults, then the given properties
createParseError(props, now) ==
    [category |-> "parsing",
     severity |-> "warning",
     recoverable |-> TRUE,
     recoveryAction |-> "skip",
     timestamp |-> now,
     message |-> props.message,
     filepath |-> props.filepath,
     position |-> props.position]

\* The properties createError is given.
CreateErrorProps ==
    [category : {"parsing", "file-system", "operational"},
     severity : ErrorSeverities,
     message : {<< "o", "o", "p", "s" >>},
     recoverable : BOOLEAN,
     recoveryAction : RecoveryActions]

\* The properties createParseError is given.
CreateParseErrorProps ==
    [message : {<< "o", "o", "p", "s" >>},
     filepath : ErrorFilepaths,
     position : {Undefined, Some([line |-> 1, column |-> 2])}]

\* Date.now(), in milliseconds since the extension started
Timestamps == {1000, 2000}

CallCreateError ==
    /\ IsDefined(fCall) /\ fCall[1].fn = "createError"
    /\ fReturn' = Some(createError(fCall[1].props, fCall[1].now))
    /\ UNCHANGED << envVars, safetyVars, xReturn, cmdVars, errVars, valVars, fCall >>

CallCreateParseError ==
    /\ IsDefined(fCall) /\ fCall[1].fn = "createParseError"
    /\ fReturn' = Some(createParseError(fCall[1].props, fCall[1].now))
    /\ UNCHANGED << envVars, safetyVars, xReturn, cmdVars, errVars, valVars, fCall >>

\* extractPaths, called once
CallExtractPathsOnce ==
    /\ xReturn = Undefined
    /\ CallExtractPaths

ParseErrorInit ==
    /\ document = Doc("app.js", "javascript", << "x" >>, 0)
    /\ settings = DefaultSettings
    /\ SafetyVarsInit
    /\ xReturn = Undefined
    /\ CmdVarsInit
    /\ ErrVarsInit
    /\ ValVarsInit
    /\ fCall \in {Some([fn |-> "createError", props |-> p, now |-> t]) :
                     p \in CreateErrorProps, t \in Timestamps}
                 \cup {Some([fn |-> "createParseError", props |-> p, now |-> t]) :
                          p \in CreateParseErrorProps, t \in Timestamps}
    /\ fReturn = Undefined

ParseErrorNext ==
    \/ CallExtractPathsOnce
    \/ CallCreateError
    \/ CallCreateParseError

ParseErrorSpec == ParseErrorInit /\ [][ParseErrorNext]_vars

\* The errors the last calls produced.
ProducedErrors ==
    {fReturn[i] : i \in 1..Len(fReturn)}
        \cup UNION {{xReturn[i].result.errors[j] :
                        j \in 1..Len(xReturn[i].result.errors)} : i \in 1..Len(xReturn)}

\* C12 as stated: every error produced, the unsupported-format error of
\* extractPaths included, carries a recovery action that is one of skip,
\* retry, abort and fallback.
C12_RecoveryActionIsListed ==
    \A e \in ProducedErrors : e.recoveryAction \in RecoveryActions

\* C12 amended: the errors built by createError and createParseError carry a
\* recovery action that is one of skip, retry, abort and fallback (always
\* skip for createParseError); the unsupported-format error of extractPaths
\* carries the recovery action 'none'.
C12_ConstructorsCarryListedAction ==
    /\ IsDefined(fReturn) =>
           /\ fReturn[1].recoveryAction \in RecoveryActions
           /\ fCall[1].fn = "createParseError" => fReturn[1].recoveryAction = "skip"
           /\ fCall[1].fn = "createError" =>
                  fReturn[1].recoveryAction = fCall[1].props.recoveryAction
    /\ IsDefined(xReturn) =>
           \A j \in 1..Len(xReturn[1].result.errors) :
               xReturn[1].result.errors[j].recoveryAction = "none"

C12_Witness ==
    /\ IsDefined(fReturn)
    /\ fCall[1].fn = "createParseError"
    /\ fReturn[1].recoveryAction = "skip"
    /\ IsDefined(xReturn)
    /\ xReturn[1].languageId = "python"
    /\ Len(xReturn[1].result.errors) = 1

\* message.toLowerCase()
toLowerCase(text) == [i \in 1..Len(text) |-> LowerOf(text[i])]

\* Mutant of categorizeError: the configuration keywords are looked for
\* before the validation keywords.
categorizeErrorConfigurationFirst(errorMessage) ==
    LET message == toLowerCase(errorMessage)
    IN  IF Includes(message, << "p", "a", "r", "s", "e" >>) \/ Includes(message, << "s", "y", "n", "t", "a", "x" >>)
        THEN "parsing"
        ELSE IF Includes(message, << "c", "o", "n", "f", "i", "g" >>) \/ Includes(message, << "s", "e", "t", "t", "i", "n", "g" >>)
        THEN "configuration"
        ELSE IF Includes(message, << "v", "a", "l", "i", "d", "a", "t", "i", "o", "n" >>)
                \/ Includes(message, << "i", "n", "v", "a", "l", "i", "d" >>)
        THEN "validation"
        ELSE IF Includes(message, << "p", "e", "r", "m", "i", "s", "s", "i", "o", "n" >>)
                \/ Includes(message, << "a", "c", "c", "e", "s", "s" >>)
        THEN "file-system"
        ELSE IF Includes(message, << "s", "a", "f", "e", "t", "y" >>)
                \/ Includes(message, << "t", "h", "r", "e", "s", "h", "o", "l", "d" >>)
        THEN "safety"
        ELSE "operational"

categorizeError(errorMessage) ==
    LET message == toLowerCase(errorMessage)
    IN  IF Includes(message, << "p", "a", "r", "s", "e" >>) \/ Includes(message, << "s", "y", "n", "t", "a", "x" >>)
        THEN "parsing"
        ELSE IF Includes(message, << "v", "a", "l", "i", "d", "a", "t", "i", "o", "n" >>)
                \/ Includes(message, << "i", "n", "v", "a", "l", "i", "d" >>)
        THEN "validation"
        ELSE IF Includes(message, << "p", "e", "r", "m", "i", "s", "s", "i", "o", "n" >>)
                \/ Includes(message, << "a", "c", "c", "e", "s", "s" >>)
        THEN "file-system"
        ELSE IF Includes(message, << "c", "o", "n", "f", "i", "g" >>) \/ Includes(message, << "s", "e", "t", "t", "i", "n", "g" >>)
        THEN "configuration"
        ELSE IF Includes(message, << "s", "a", "f", "e", "t", "y" >>)
                \/ Includes(message, << "t", "h", "r", "e", "s", "h", "o", "l", "d" >>)
        THEN "safety"
        ELSE "operational"

determineSeverity(errorMessage, category) ==
    LET message == toLowerCase(errorMessage)
    IN  IF Includes(message, << "c", "r", "i", "t", "i", "c", "a", "l" >>) \/ Includes(message, << "f", "a", "t", "a", "l" >>)
        THEN "critical"
        ELSE IF Includes(message, << "e", "r", "r", "o", "r" >>) \/ category = "file-system"
        THEN "error"
        ELSE IF Includes(message, << "w", "a", "r", "n", "i", "n", "g" >>) \/ category = "validation"
        THEN "warning"
        ELSE "info"

\* Mutant of determineRecoveryAction: a critical severity is looked at before
\* the parsing and validation categories.
determineRecoveryActionCriticalFirst(category, severity) ==
    IF category = "file-system" /\ severity = "error" THEN "retry"
    ELSE IF severity = "critical" THEN "abort"
    ELSE IF category = "parsing" \/ category = "validation" THEN "skip"
    ELSE "fallback"

determineRecoveryAction(category, severity) ==
    IF category = "file-system" /\ severity = "error" THEN "retry"
    ELSE IF category = "parsing" \/ category = "validation" THEN "skip"
    ELSE IF severity = "critical" THEN "abort"
    ELSE "fallback"

\* The fallback action of a configuration error: an asynchronous function
\* with an empty body.
FallbackToDefaultConfiguration == "fallback to default configuration"

\* Mutant of buildErrorRecoveryOptions: a validation error is retried once.
buildErrorRecoveryOptionsRetryValidation(error) ==
    IF error.category = "file-system"
    THEN [retryable |-> TRUE, maxRetries |-> 3, retryDelay |-> 1000,
          fallbackAction |-> Undefined]
    ELSE IF error.category = "operational"
    THEN [retryable |-> TRUE, maxRetries |-> 2, retryDelay |-> 2000,
          fallbackAction |-> Undefined]
    ELSE IF error.category = "configuration"
    THEN [retryable |-> FALSE, maxRetries |-> 0, retryDelay |-> 0,
          fallbackAction |-> Some(FallbackToDefaultConfiguration)]
    ELSE IF error.category = "validation"
    THEN [retryable |-> TRUE, maxRetries |-> 1, retryDelay |-> 0,
          fallbackAction |-> Undefined]
    ELSE [retryable |-> FALSE, maxRetries |-> 0, retryDelay |-> 0,
          fallbackAction |-> Undefined]

buildErrorRecoveryOptions(error) ==
    IF error.category = "file-system"
    THEN [retryable |-> TRUE, maxRetries |-> 3, retryDelay |-> 1000,
          fallbackAction |-> Undefined]
    ELSE IF error.category = "operational"
    THEN [retryable |-> TRUE, maxRetries |-> 2, retryDelay |-> 2000,
          fallbackAction |-> Undefined]
    ELSE IF error.category = "configuration"
    THEN [retryable |-> FALSE, maxRetries |-> 0, retryDelay |-> 0,
          fallbackAction |-> Some(FallbackToDefaultConfiguration)]
    ELSE [retryable |-> FALSE, maxRetries |-> 0, retryDelay |-> 0,
          fallbackAction |-> Undefined]

\* The messages of the errors that are classified.
ClassifiedMessages ==
    { << "P", "a", "r", "s", "e", " ", "e", "r", "r", "o", "r" >>,
      << "S", "y", "n", "t", "a", "x", " ", "e", "r", "r", "o", "r" >>,
      << "V", "a", "l", "i", "d", "a", "t", "i", "o", "n", " ", "f", "a", "i", "l", "e", "d" >>,
      << "I", "n", "v", "a", "l", "i", "d", " ", "p", "a", "t", "h" >>,
      << "P", "e", "r", "m", "i", "s", "s", "i", "o", "n", " ", "d", "e", "n", "i", "e", "d" >>,
      << "A", "c", "c", "e", "s", "s", " ", "d", "e", "n", "i", "e", "d" >>,
      << "C", "o", "n", "f", "i", "g", " ", "e", "r", "r", "o", "r" >>,
      << "S", "e", "t", "t", "i", "n", "g", " ", "n", "o", "t", " ", "f", "o", "u", "n", "d" >>,
      << "S", "a", "f", "e", "t", "y", " ", "t", "h", "r", "e", "s", "h", "o", "l", "d", " ", "e", "x", "c", "e", "e", "d", "e", "d" >>,
      << "T", "h", "r", "e", "s", "h", "o", "l", "d", " ", "e", "x", "c", "e", "e", "d", "e", "d" >>,
      << "S", "o", "m", "e", "t", "h", "i", "n", "g", " ", "w", "e", "n", "t", " ", "w", "r", "o", "n", "g" >>,
      << "i", "n", "v", "a", "l", "i", "d", " ", "s", "y", "n", "t", "a", "x" >>,
      << "b", "a", "d", " ", "s", "e", "t", "t", "i", "n", "g", ":", " ", "a", "c", "c", "e", "s", "s" >>,
      << "p", "e", "r", "m", "i", "s", "s", "i", "o", "n", " ", "d", "e", "n", "i", "e", "d" >>,
      << "n", "e", "t", "w", "o", "r", "k", " ", "t", "i", "m", "e", "o", "u", "t" >>,
      << "f", "a", "t", "a", "l", " ", "e", "r", "r", "o", "r", " ", "o", "c", "c", "u", "r", "r", "e", "d" >>,
      << "F", "a", "t", "a", "l", " ", "c", "r", "a", "s", "h" >>,
      << "F", "i", "l", "e", " ", "e", "r", "r", "o", "r" >>,
      << "c", "r", "i", "t", "i", "c", "a", "l", " ", "w", "a", "r", "n", "i", "n", "g" >>,
      << "u", "n", "s", "a", "f", "e", " ", "c", "o", "n", "f", "i", "g" >> }

\* An error in hand: its message, and the category, severity and options it
\* is given where the function called takes them.
ErrorRuleInputs ==
    [fn : {"none"},
     message : ClassifiedMessages,
     category : ErrorCategories,
     severity : ErrorSeverities,
     options : {o \in ErrorOptions : o.severity = Undefined}]

Applied(fn) == Some([fCall[1] EXCEPT !.fn = fn])

EnhancedErrorInHand ==
    createEnhancedError(fCall[1].message, fCall[1].category, Undefined, fCall[1].options)

CallCategorizeError ==
    /\ fCall' = Applied("categorizeError")
    /\ fReturn' = Some(categorizeError(fCall[1].message))
    /\ UNCHANGED << envVars, safetyVars, xReturn, cmdVars, errVars, valVars >>

CallDetermineSeverity ==
    /\ fCall' = Applied("determineSeverity")
    /\ fReturn' = Some(determineSeverity(fCall[1].message, fCall[1].category))
    /\ UNCHANGED << envVars, safetyVars, xReturn, cmdVars, errVars, valVars >>

CallDetermineRecoveryAction ==
    /\ fCall' = Applied("determineRecoveryAction")
    /\ fReturn' = Some(determineRecoveryAction(fCall[1].category, fCall[1].severity))
    /\ UNCHANGED << envVars, safetyVars, xReturn, cmdVars, errVars, valVars >>

CallCreateEnhancedError ==
    /\ fCall' = Applied("createEnhancedError")
    /\ fReturn' = Some(EnhancedErrorInHand)
    /\ UNCHANGED << envVars, safetyVars, xReturn, cmdVars, errVars, valVars >>

CallBuildErrorRecoveryOptions ==
    /\ fCall' = Applied("buildErrorRecoveryOptions")
    /\ fReturn' = Some(buildErrorRecoveryOptions(EnhancedErrorInHand))
    /\ UNCHANGED << envVars, safetyVars, xReturn, cmdVars, errVars, valVars >>

ErrorRulesInit ==
    /\ document = Doc("app.js", "javascript", << "x" >>, 0)
    /\ settings = DefaultSettings
    /\ SafetyVarsInit
    /\ xReturn = Undefined
    /\ CmdVarsInit
    /\ ErrVarsInit
    /\ ValVarsInit
    /\ fCall \in {Some(e) : e \in ErrorRuleInputs}
    /\ fReturn = Undefined

ErrorRulesNext ==
    \/ CallCategorizeError
    \/ CallDetermineSeverity
    \/ CallDetermineRecoveryAction
    \/ CallCreateEnhancedError
    \/ CallBuildErrorRecoveryOptions

ErrorRulesSpec == ErrorRulesInit /\ [][ErrorRulesNext]_vars

Answered(fn) == IsDefined(fReturn) /\ fCall[1].fn = fn

\* The keyword groups of the classification, in priority order.
KeywordGroups ==
    << [words |-> {<< "p", "a", "r", "s", "e" >>, << "s", "y", "n", "t", "a", "x" >>},
        category |-> "parsing"],
       [words |-> {<< "v", "a", "l", "i", "d", "a", "t", "i", "o", "n" >>,
                   << "i", "n", "v", "a", "l", "i", "d" >>},
        category |-> "validation"],
       [words |-> {<< "p", "e", "r", "m", "i", "s", "s", "i", "o", "n" >>,
                   << "a", "c", "c", "e", "s", "s" >>},
        category |-> "file-system"],
       [words |-> {<< "c", "o", "n", "f", "i", "g" >>,
                   << "s", "e", "t", "t", "i", "n", "g" >>},
        category |-> "configuration"],
       [words |-> {<< "s", "a", "f", "e", "t", "y" >>,
                   << "t", "h", "r", "e", "s", "h", "o", "l", "d" >>},
        category |-> "safety"] >>

MatchingGroups(message) ==
    {g \in 1..Len(KeywordGroups) :
        \E w \in KeywordGroups[g].words : Includes(toLowerCase(message), w)}

\* C13: categorizeError returns the category of the earliest keyword group
\* that has a keyword in the lower-cased message, and operational when no
\* group has one.
C13_EarliestKeywordGroupWins ==
    Answered("categorizeError") =>
        LET hits == MatchingGroups(fCall[1].message)
        IN  IF hits = {}
            THEN fReturn[1] = "operational"
            ELSE \E g \in hits :
                    /\ \A h \in hits : g <= h
                    /\ fReturn[1] = KeywordGroups[g].category

\* A message with keywords of the third and the fourth group.
C13_Witness ==
    /\ Answered("categorizeError")
    /\ fCall[1].message = << "b", "a", "d", " ", "s", "e", "t", "t", "i", "n", "g", ":", " ", "a", "c", "c", "e", "s", "s" >>
    /\ MatchingGroups(fCall[1].message) = {3, 4}
    /\ fReturn[1] = "file-system"

\* C14: determineRecoveryAction returns retry for file-system with severity
\* error, otherwise skip for parsing and validation, otherwise abort for
\* severity critical, otherwise fallback.
C14_RecoveryActionByPriority ==
    Answered("determineRecoveryAction") =>
        LET category == fCall[1].category
            severity == fCall[1].severity
        IN  /\ (category = "file-system" /\ severity = "error") => fReturn[1] = "retry"
            /\ (~(category = "file-system" /\ severity = "error")
                    /\ category \in {"parsing", "validation"}) => fReturn[1] = "skip"
            /\ (~(category = "file-system" /\ severity = "error")
                    /\ category \notin {"parsing", "validation"}
                    /\ severity = "critical") => fReturn[1] = "abort"
            /\ (~(category = "file-system" /\ severity = "error")
                    /\ category \notin {"parsing", "validation"}
                    /\ severity # "critical") => fReturn[1] = "fallback"

\* A critical parsing error is skipped, not aborted.
C14_Witness ==
    /\ Answered("determineRecoveryAction")
    /\ fCall[1].category = "parsing"
    /\ fCall[1].severity = "critical"
    /\ fReturn[1] = "skip"

\* C15 as stated: without an explicit recoverable option an error of
\* category parse, parsing, validation, configuration or file-system is
\* recoverable, a safety error is not, and an operational error is
\* recoverable unless its message says fatal; an explicit option is returned
\* as it is.
C15_RecoverableByTaxonomy ==
    Answered("createEnhancedError") =>
        LET category == fCall[1].category
            explicit == fCall[1].options.recoverable
        IN  fReturn[1].recoverable =
                IF IsDefined(explicit) THEN explicit[1]
                ELSE IF category = "safety" THEN FALSE
                ELSE IF category = "operational"
                THEN ~Includes(toLowerCase(fCall[1].message), << "f", "a", "t", "a", "l" >>)
                ELSE TRUE

\* What holds of the recoverable flag: an explicit option is returned as it
\* is; without one, parse, parsing, validation and configuration errors are
\* recoverable and safety errors are not.
C15_ExplicitOptionOverrides ==
    Answered("createEnhancedError") =>
        LET category == fCall[1].category
            explicit == fCall[1].options.recoverable
        IN  /\ IsDefined(explicit) => fReturn[1].recoverable = explicit[1]
            /\ (explicit = Undefined
                    /\ category \in {"parse", "parsing", "validation", "configuration"})
                   => fReturn[1].recoverable
            /\ (explicit = Undefined /\ category = "safety") => ~fReturn[1].recoverable

\* C16: the recovery options are a function of the category alone:
\* file-system is retried 3 times 1000 ms apart, operational 2 times 2000 ms
\* apart, configuration is not retried and has a fallback action, and every
\* other category is not retried and has none.
C16_RecoveryOptionsByCategory ==
    Answered("buildErrorRecoveryOptions") =>
        LET category == fCall[1].category
            o == fReturn[1]
        IN  /\ category = "file-system" =>
                   /\ o.retryable /\ o.maxRetries = 3 /\ o.retryDelay = 1000
                   /\ o.fallbackAction = Undefined
            /\ category = "operational" =>
                   /\ o.retryable /\ o.maxRetries = 2 /\ o.retryDelay = 2000
                   /\ o.fallbackAction = Undefined
            /\ category = "configuration" =>
                   /\ ~o.retryable /\ o.maxRetries = 0 /\ o.retryDelay = 0
                   /\ IsDefined(o.fallbackAction)
            /\ category \notin {"file-system", "operational", "configuration"} =>
                   /\ ~o.retryable /\ o.maxRetries = 0 /\ o.retryDelay = 0
                   /\ o.fallbackAction = Undefined

\* A validation error with an explicit recoverable option and a message that
\* has the keywords of other categories.
C16_Witness ==
    /\ Answered("buildErrorRecoveryOptions")
    /\ fCall[1].category = "validation"
    /\ fCall[1].message = << "P", "e", "r", "m", "i", "s", "s", "i", "o", "n", " ", "d", "e", "n", "i", "e", "d" >>
    /\ fCall[1].options.recoverable = Some(TRUE)
    /\ ~fReturn[1].retryable
    /\ fReturn[1].fallbackAction = Undefined

(***************************************************************************)
(* createErrorHandler(deps).handleWithRecovery                              *)
(***************************************************************************)
\* The most attempts the recovery options given by a caller allow.
MaxAttempts == 2

\* The retry loop from `attempt` on.  outcomes[a + 1] is how the fallback
\* action ends when it is called in attempt a.
RECURSIVE RetryLoop(_, _, _, _, _, _, _, _)
RetryLoop(error, recoveryOptions, stack, level, outcomes, attempt, lines, calls) ==
    IF attempt >= recoveryOptions.maxRetries
    THEN [returned |-> FALSE, fallbackCalls |-> calls,
          lines |-> lines \o HandlerHandle(error, stack, level)]
    ELSE IF recoveryOptions.fallbackAction = Undefined
    THEN RetryLoop(error, recoveryOptions, stack, level, outcomes,
                   attempt + 1,
                   lines \o HandlerHandle(error, stack, level),
                   calls)
    ELSE IF outcomes[attempt + 1] = "completes"
    THEN [returned |-> TRUE, fallbackCalls |-> calls + 1, lines |-> lines]
    ELSE RetryLoop(error, recoveryOptions, stack, level, outcomes,
                   attempt + 1, lines, calls + 1)

handleWithRecovery(error, options, stack, notificationsLevel, outcomes) ==
    LET recoveryOptions == Coalesce(options, buildErrorRecoveryOptions(error))
    IN  IF ~recoveryOptions.retryable
        THEN [returned |-> FALSE, fallbackCalls |-> 0,
              lines |-> HandlerHandle(error, stack, notificationsLevel)]
        ELSE RetryLoop(error, recoveryOptions, stack, notificationsLevel, outcomes,
                       0, << >>, 0)

\* Recovery options a caller builds itself.
CallerRecoveryOptions ==
    [retryable : BOOLEAN, maxRetries : {0, MaxAttempts}, retryDelay : {0},
     fallbackAction : {Undefined, Some("caller's fallback")}]

\* How the calls of a fallback action end.  The fallback action of
\* buildErrorRecoveryOptions has an empty body and always completes.
FallbackOutcomes(options) ==
    IF IsDefined(options) /\ options[1] \in CallerRecoveryOptions
    THEN [1..MaxAttempts -> {"completes", "throws"}]
    ELSE {[a \in 1..MaxAttempts |-> "completes"]}

RecoveryErrors ==
    {e \in ErrorInputs : /\ e.error.message = << "o", "o", "p", "s" >>
                         /\ e.stack = Undefined
                         /\ e.notificationsLevel # "important"}

CallHandleWithRecovery ==
    /\ eCall[1].fn = "none"
    /\ LET r == handleWithRecovery(eCall[1].error, fCall[1].options, eCall[1].stack,
                                   eCall[1].notificationsLevel, fCall[1].outcomes)
       IN  /\ eCall' = Called("ErrorHandler.handleWithRecovery")
           /\ eOut' = r.lines
           /\ fReturn' = Some([returned |-> r.returned,
                               fallbackCalls |-> r.fallbackCalls])
    /\ UNCHANGED << envVars, safetyVars, xReturn, cmdVars, valVars, fCall >>

RecoveryInit ==
    /\ document = Doc("app.js", "javascript", << "x" >>, 0)
    /\ settings = DefaultSettings
    /\ SafetyVarsInit
    /\ xReturn = Undefined
    /\ CmdVarsInit
    /\ eCall \in {Some(e) : e \in RecoveryErrors}
    /\ eOut = << >>
    /\ ValVarsInit
    /\ \E options \in {Undefined, Some(buildErrorRecoveryOptions(eCall[1].error))}
                          \cup {Some(o) : o \in CallerRecoveryOptions} :
           fCall \in {Some([options |-> options, outcomes |-> q]) :
                         q \in FallbackOutcomes(options)}
    /\ fReturn = Undefined

RecoveryNext == CallHandleWithRecovery

RecoverySpec == RecoveryInit /\ [][RecoveryNext]_vars

\* C17 as stated: for a configuration error handled with the recovery
\* options of buildErrorRecoveryOptions, the fallback action is invoked and
\* handleWithRecovery returns true.
C17_ConfigurationFallsBack ==
    (/\ IsDefined(fReturn)
     /\ eCall[1].error.category = "configuration"
     /\ fCall[1].options \in {Undefined,
                              Some(buildErrorRecoveryOptions(eCall[1].error))})
        => /\ fReturn[1].fallbackCalls >= 1
           /\ fReturn[1].returned

\* A fallback action is only called when the options are retryable with at
\* least one attempt; then the call returns true exactly when one of the
\* calls of the fallback action completes.
C17_FallbackOnlyWhenRetryable ==
    IsDefined(fReturn) =>
        LET o == Coalesce(fCall[1].options, buildErrorRecoveryOptions(eCall[1].error))
        IN  /\ fReturn[1].fallbackCalls > 0 =>
                   /\ o.retryable /\ o.maxRetries > 0 /\ IsDefined(o.fallbackAction)
            /\ fReturn[1].returned =>
                   /\ fReturn[1].fallbackCalls > 0
                   /\ fCall[1].outcomes[fReturn[1].fallbackCalls] = "completes"

(***************************************************************************)
(* The post-processing commands: deduplicateLines and sortLines.           *)
(***************************************************************************)
\* The longest list of lines handed to a post-processing function.
MaxLines == 4

\* Mutant of deduplicateLines: empty lines are kept like any other line.
deduplicateLinesKeepingEmpty(lines) ==
    LET RECURSIVE Loop(_, _, _)
        Loop(i, seen, deduped) ==
            IF i > Len(lines) THEN deduped
            ELSE IF lines[i] \in seen
            THEN Loop(i + 1, seen, deduped)
            ELSE Loop(i + 1, seen \cup {lines[i]}, Append(deduped, lines[i]))
    IN  Loop(1, {}, << >>)

deduplicateLines(lines) ==
    LET RECURSIVE Loop(_, _, _)
        Loop(i, seen, deduped) ==
            IF i > Len(lines) THEN deduped
            ELSE IF lines[i] = << >> \/ lines[i] \in seen
            THEN Loop(i + 1, seen, deduped)
            ELSE Loop(i + 1, seen \cup {lines[i]}, Append(deduped, lines[i]))
    IN  Loop(1, {}, << >>)

SortOrders == {"asc", "desc", "length-asc", "length-desc"}

\* The characters of the lines in the order of their primary collation
\* weights: punctuation before letters, a letter's two cases together.
CollationAlphabet == << ".", "/" >> \o LowerLetters

PrimaryWeight(c) == CHOOSE i \in 1..Len(CollationAlphabet) : CollationAlphabet[i] = LowerOf(c)

RECURSIVE ComparePrimary(_, _)
ComparePrimary(a, b) ==
    IF a = << >> /\ b = << >> THEN 0
    ELSE IF a = << >> THEN 0 - 1
    ELSE IF b = << >> THEN 1
    ELSE IF PrimaryWeight(Head(a)) < PrimaryWeight(Head(b)) THEN 0 - 1
    ELSE IF PrimaryWeight(Head(a)) > PrimaryWeight(Head(b)) THEN 1
    ELSE ComparePrimary(Tail(a), Tail(b))

\* a.localeCompare(b): the letters decide; between texts with the same
\* letters the first difference of case does, lower case first.
localeCompare(a, b) ==
    IF ComparePrimary(a, b) # 0 THEN ComparePrimary(a, b)
    ELSE IF a = b THEN 0
    ELSE LET i == CHOOSE k \in 1..Len(a) :
                      a[k] # b[k] /\ \A j \in 1..(k - 1) : a[j] = b[j]
         IN  IF a[i] = LowerOf(a[i]) THEN 0 - 1 ELSE 1

\* The comparator sortLines gives to Array.prototype.sort.
Comparator(order, a, b) ==
    IF order = "length-asc" THEN Len(a) - Len(b)
    ELSE IF order = "length-desc" THEN Len(b) - Len(a)
    ELSE IF order = "asc" THEN localeCompare(a, b)
    ELSE localeCompare(b, a)

\* Array.prototype.sort(comparator): a stable sort.  Each element goes in
\* front of the first element already placed that sorts after it.
ArraySort(array, order) ==
    LET RECURSIVE Loop(_, _)
        Loop(i, sorted) ==
            IF i > Len(array) THEN sorted
            ELSE LET later == {k \in 1..Len(sorted) :
                                  Comparator(order, sorted[k], array[i]) > 0}
                     at == IF later = {} THEN Len(sorted) + 1
                           ELSE CHOOSE k \in later : \A m \in later : k <= m
                 IN  Loop(i + 1, SubSeq(sorted, 1, at - 1) \o << array[i] >>
                                     \o SubSeq(sorted, at, Len(sorted)))
    IN  Loop(1, << >>)

\* Mutant of sortLines: the lines are sorted from the last to the first, so
\* that lines that compare equal come out in reverse.
sortLinesTiesReversed(lines, order) ==
    [result |-> ArraySort([i \in 1..Len(lines) |-> lines[Len(lines) + 1 - i]], order),
     lines |-> lines]

\* sortLines(lines, order): the array returned, and the array `lines` after
\* the call.
sortLines(lines, order) ==
    [result |-> ArraySort(lines, order), lines |-> lines]

LineValues ==
    { << >>, << "/", "a" >>, << "/", "b" >>, << "/", "B" >>, << "/", "a", "b" >> }

CallDeduplicateLines ==
    /\ fCall' = Applied("deduplicateLines")
    /\ fReturn' = Some([result |-> deduplicateLines(fCall[1].lines),
                        lines |-> fCall[1].lines])
    /\ UNCHANGED << envVars, safetyVars, xReturn, cmdVars, errVars, valVars >>

CallSortLines ==
    /\ fCall' = Applied("sortLines")
    /\ fReturn' = Some(sortLines(fCall[1].lines, fCall[1].order))
    /\ UNCHANGED << envVars, safetyVars, xReturn, cmdVars, errVars, valVars >>

LinesInit ==
    /\ document = Doc("app.js", "javascript", << "x" >>, 0)
    /\ settings = DefaultSettings
    /\ SafetyVarsInit
    /\ xReturn = Undefined
    /\ CmdVarsInit
    /\ ErrVarsInit
    /\ ValVarsInit
    /\ fCall \in {Some([fn |-> "none", lines |-> lines, order |-> order]) :
                     lines \in SeqsUpTo(LineValues, MaxLines), order \in SortOrders}
    /\ fReturn = Undefined

LinesNext ==
    \/ CallDeduplicateLines
    \/ CallSortLines

LinesSpec == LinesInit /\ [][LinesNext]_vars

Occurrences(q, x) == {i \in 1..Len(q) : q[i] = x}

FirstOccurrence(q, x) == CHOOSE i \in Occurrences(q, x) : \A j \in Occurrences(q, x) : i <= j

\* C18: deduplicateLines returns the distinct non-empty lines of its input
\* in order of first occurrence.
C18_DistinctNonEmptyInFirstSeenOrder ==
    Answered("deduplicateLines") =>
        LET lines == fCall[1].lines
            deduped == fReturn[1].result
        IN  /\ \A i \in 1..Len(deduped) : deduped[i] # << >>
            /\ \A i, j \in 1..Len(deduped) : i # j => deduped[i] # deduped[j]
            /\ \A i \in 1..Len(lines) :
                   lines[i] # << >> => Occurrences(deduped, lines[i]) # {}
            /\ \A i \in 1..Len(deduped) : Occurrences(lines, deduped[i]) # {}
            /\ \A i, j \in 1..Len(deduped) :
                   i < j => FirstOccurrence(lines, deduped[i])
                                < FirstOccurrence(lines, deduped[j])

\* A line seen twice around an empty line and a second line.
C18_Witness ==
    /\ Answered("deduplicateLines")
    /\ fCall[1].lines = << << "/", "b" >>, << >>, << "/", "a" >>, << "/", "b" >> >>
    /\ fReturn[1].result = << << "/", "b" >>, << "/", "a" >> >>

\* The lines of q that compare equal to x under the order.
TiedWith(q, order, x) == SelectSeq(q, LAMBDA y : Comparator(order, y, x) = 0)

\* C19: for each sort order sortLines returns a permutation of its input in
\* which no line comes before one that sorts before it, lines that compare
\* equal keep their relative order, and the input is left as it was.
C19_StableSortedPermutation ==
    Answered("sortLines") =>
        LET lines == fCall[1].lines
            order == fCall[1].order
            sorted == fReturn[1].result
        IN  /\ Len(sorted) = Len(lines)
            /\ \A x \in LineValues :
                   Cardinality(Occurrences(sorted, x)) = Cardinality(Occurrences(lines, x))
            /\ \A i, j \in 1..Len(sorted) :
                   i < j => Comparator(order, sorted[i], sorted[j]) <= 0
            /\ \A x \in LineValues :
                   TiedWith(sorted, order, x) = TiedWith(lines, order, x)
            /\ fReturn[1].lines = lines

\* Two different lines of the same length after a longer one, by length.
C19_Witness ==
    /\ Answered("sortLines")
    /\ fCall[1].order = "length-asc"
    /\ fCall[1].lines = << << "/", "a", "b" >>, << "/", "b" >>, << "/", "a" >> >>
    /\ fReturn[1].result = << << "/", "b" >>, << "/", "a" >>, << "/", "a", "b" >> >>

(***************************************************************************)
(* The extract command on documents around one and ten megabytes, with     *)
(* every setting at its default.                                           *)
(***************************************************************************)
\* <<unit, reps>>: one-line texts and texts of lines with one path each.
SizedContents ==
    {<< << "x" >>, n >> :
        n \in {3, 999999, 1000000, 1000001, 1048576, 1048577, 2000000, 9999999,
               10000000, 10000001, 10485761}}
        \cup {<< << "/", "a", "\n" >>, n >> : n \in {1, 333333, 333334, 3000000, 4000000}}

SizedDocuments ==
    {Doc("app.js", "javascript", c[1], c[2]) : c \in SizedContents}
        \cup {Doc("notes.txt", "plaintext", c[1], c[2]) : c \in SizedContents}
        \cup {Doc("data.csv", "csv", c[1], c[2]) : c \in SizedContents}

\* The user opens another document in the editor.
OpenSizedDocument ==
    /\ cPc = "idle"
    /\ \E d \in SizedDocuments : document' = d
    /\ activeEditor' = TRUE
    /\ ForgetRun
    /\ UNCHANGED << settings, safetyVars, errVars, valVars, fnVars, xReturn, cPc, cProgress,
                    cSlots, cCounts >>

DefaultLimitsInit ==
    /\ document \in SizedDocuments
    /\ settings = DefaultSettings
    /\ SafetyVarsInit
    /\ xReturn = Undefined
    /\ CmdVarsInit
    /\ ErrVarsInit
    /\ ValVarsInit
    /\ FnVarsInit

DefaultLimitsNext ==
    \/ ExtractBlockedBySafety
    \/ ExtractUnsuccessful
    \/ ExtractNothingFound
    \/ ExtractPlain
    \/ DisplayResults
    \/ OpenSizedDocument

DefaultLimitsSpec == DefaultLimitsInit /\ [][DefaultLimitsNext]_vars

\* C20 as stated: with the default settings a document of more than 1 MB and
\* less than 10 MB gets a warning and is extracted from, and only a document
\* of more than 10 MB is refused.
C20_WarnAbove1MBRefuseAbove10MB ==
    \A run \in ReturnedRuns :
        LET size == ContentLength(run.document)
        IN  /\ (size > 1000000 /\ size < 10000000) =>
                   /\ run.outcome # "safety-blocked"
                   /\ GateOf(run).proceed
            /\ run.outcome = "safety-blocked" => size > 10000000

\* With the default settings the command refuses a document exactly when it
\* has more than 1000000 characters.
C20_DefaultRefusesAbove1MB ==
    \A run \in ReturnedRuns :
        run.outcome = "safety-blocked" <=> ContentLength(run.document) > 1000000

(***************************************************************************)
(* The extract command: the canonical-resolution warning, the settings,    *)
(* the document and the progress indicator.                                *)
(***************************************************************************)
\* The values of the paths a run extracted, one per line.
OriginalValues(run) ==
    JoinLines([i \in 1..Len(run.extraction[1].paths) |-> run.extraction[1].paths[i].value])

\* C21 as stated: a run whose security warning was answered with 'Disable and
\* Continue' has turned both resolution settings off and finishes by
\* displaying the extracted paths with their original values.
C21_DisableAndContinueExtracts ==
    \A run \in ReturnedRuns :
        run.choice = Some("Disable and Continue") =>
            /\ settings.resolveSymlinks = Some(FALSE)
            /\ settings.resolveWorkspaceRelative = Some(FALSE)
            /\ run.outcome = "displayed"
            /\ IsDefined(cDisplay)
            /\ cDisplay[1].content = OriginalValues(run)

\* What the command does: after 'Disable and Continue' both resolution
\* settings are off, the information message is shown, and the run ends
\* without displaying anything.
C21_DisableAndContinueStops ==
    \A run \in ReturnedRuns :
        run.choice = Some("Disable and Continue") =>
            /\ settings.resolveSymlinks = Some(FALSE)
            /\ settings.resolveWorkspaceRelative = Some(FALSE)
            /\ run.outcome = "warning-declined"
            /\ cDisplay = Undefined
            /\ run.formatted = Undefined

Acknowledged(st) == st.canonicalWarningShown = Some(TRUE)

\* The step in which the user answers the security warning with `choice`.
AnswersWarningWith(choice) ==
    /\ cPc = "warning"
    /\ cPc' # "warning"
    /\ IsDefined(cRun')
    /\ cRun'[1].choice = choice

\* C22: the security warning is open only while 'Continue' has never been
\* chosen; a run with canonical resolution enabled asks exactly when the
\* acknowledgment is not recorded; the acknowledgment is recorded by the
\* answer 'Continue' and by nothing else, and once recorded it stays.
C22_FirstTimeWarning ==
    /\ [](cPc = "warning" => ~Acknowledged(settings))
    /\ [](\A run \in {cRun[i] : i \in 1..Len(cRun)} :
              /\ run.asked => ~Acknowledged(run.settings)
              /\ (run.canonicalEnabled /\ ~run.asked) => Acknowledged(run.settings))
    /\ [][/\ Acknowledged(settings) => Acknowledged(settings')
          /\ AnswersWarningWith(Some("Continue")) => Acknowledged(settings')
          /\ settings'.canonicalWarningShown # settings.canonicalWarningShown
                 => AnswersWarningWith(Some("Continue"))]_vars

\* A run with canonical resolution enabled that came after the
\* acknowledgment has displayed its paths without asking.
C22_Witness ==
    /\ IsDefined(cRun)
    /\ cRun[1].canonicalEnabled
    /\ ~cRun[1].asked
    /\ Acknowledged(cRun[1].settings)
    /\ cRun[1].outcome = "displayed"

(***************************************************************************)
(* utils/pathValidation: the rules applied to one path.                    *)
(***************************************************************************)
\* The most segments of a path the rules are applied to.
MaxSegments == 3

RuleSegments ==
    { << ".", "." >>, << "a" >>, << "e", "t", "c" >>, << "C", "O", "N" >>,
      << "a", "<" >>, << "a", ".", ".", "b" >> }

RECURSIVE JoinSegments(_, _)
JoinSegments(segments, separator) ==
    IF segments = << >> THEN << >>
    ELSE IF Len(segments) = 1 THEN segments[1]
    ELSE segments[1] \o << separator >> \o JoinSegments(Tail(segments), separator)

\* Relative and absolute paths of up to MaxSegments segments, with either
\* separator.
RulePaths ==
    {root \o JoinSegments(segments, separator) :
        root \in {<< >>, << "/" >>}, separator \in {"/", "\\"},
        segments \in SeqsUpTo(RuleSegments, MaxSegments)}

CallIsPathSafe ==
    /\ fCall' = Applied("isPathSafe")
    /\ fReturn' = Some(isPathSafe(fCall[1].path))
    /\ UNCHANGED << envVars, safetyVars, xReturn, cmdVars, errVars, valVars >>

CallValidatePathFormat ==
    /\ fCall' = Applied("validatePathFormat")
    /\ fReturn' = Some(validatePathFormat(fCall[1].path))
    /\ UNCHANGED << envVars, safetyVars, xReturn, cmdVars, errVars, valVars >>

PathRulesInit ==
    /\ document = Doc("app.js", "javascript", << "x" >>, 0)
    /\ settings = DefaultSettings
    /\ SafetyVarsInit
    /\ xReturn = Undefined
    /\ CmdVarsInit
    /\ ErrVarsInit
    /\ ValVarsInit
    /\ fCall \in {Some([fn |-> "none", path |-> path]) : path \in RulePaths}
    /\ fReturn = Undefined

PathRulesNext ==
    \/ CallIsPathSafe
    \/ CallValidatePathFormat

PathRulesSpec == PathRulesInit /\ [][PathRulesNext]_vars

\* C23: a path with the sequence '..' in it is rejected by isPathSafe,
\* whatever its other characters, and by validatePathFormat with the
\* traversal error among its errors; so a path that isPathSafe rejects for
\* traversal is never format-valid.
C23_TraversalRejectedByBoth ==
    \A call \in {fCall[i] : i \in 1..Len(fCall)} :
        Includes(call.path, << ".", "." >>) =>
            /\ Answered("isPathSafe") => fReturn[1] = FALSE
            /\ Answered("validatePathFormat") =>
                   /\ ~fReturn[1].isValid
                   /\ \E i \in 1..Len(fReturn[1].errors) :
                          fReturn[1].errors[i] = "Path contains traversal sequences"

\* A traversal path with an invalid character in it, rejected by isPathSafe.
C23_Witness ==
    /\ Answered("isPathSafe")
    /\ fCall[1].path = << "/", "a", "<", "/", ".", ".", "/", "e", "t", "c" >>
    /\ fReturn[1] = FALSE

\* C24 as stated: no step of an invocation of the extract command changes a
\* setting, so the settings at its end are those of its snapshot.
C24_SettingsUntouchedByCommand ==
    \A run \in ReturnedRuns : settings = run.settings

\* C24 amended: an invocation keeps the snapshot it read, and the only steps
\* of the command that change a stored setting are the answers to the
\* security warning: 'Disable and Continue' sets both resolution settings to
\* false and 'Continue' records the acknowledgment; every other setting
\* keeps its value.
C24_SettingsChangedOnlyByWarningAnswer ==
    [][IsDefined(cRun') =>
           /\ (IsDefined(cRun) /\ cPc # "idle") => cRun'[1].settings = cRun[1].settings
           /\ settings' # settings =>
                  \/ /\ AnswersWarningWith(Some("Disable and Continue"))
                     /\ settings' = [settings EXCEPT
                                         !.resolveSymlinks = Some(FALSE),
                                         !.resolveWorkspaceRelative = Some(FALSE)]
                  \/ /\ AnswersWarningWith(Some("Continue"))
                     /\ settings' = [settings EXCEPT
                                         !.canonicalWarningShown = Some(TRUE)]]_vars

\* A run that ended with settings other than those of its snapshot.
C24_Witness ==
    \E run \in ReturnedRuns :
        /\ run.choice = Some("Disable and Continue")
        /\ run.settings.resolveSymlinks = Some(TRUE)
        /\ settings.resolveSymlinks = Some(FALSE)

(***************************************************************************)
(* utils/validation: a path that detectPathType classifies as a URL.      *)
(***************************************************************************)
UrlResults == {i \in 1..Len(vResults) : detectPathType(vResults[i].path) = "url"}

LoggedErrors == {i \in 1..Len(eOut) : eOut[i].prefix = "[timestamp] [ERROR] "}

\* The lines of eOut that come from the notifier.
Notifications == {i \in 1..Len(eOut) : eOut[i].sink # "outputChannel"}

HandleWasCalled == eCall[1].fn = "ErrorHandler.handle"

\* C26: ErrorHandler.handle logs the error exactly once, before anything
\* else, and then notifies the user at most once: exactly when the severity
\* is high, or medium with a notification level other than silent, or low
\* with the level all.  A high-severity error is shown with showError, any
\* other shown error with showWarning; at level silent a low or medium error
\* is logged and not shown.
C26_HandleLogsOnceThenNotifies ==
    HandleWasCalled =>
        LET error == eCall[1].error
            level == eCall[1].notificationsLevel
            shown == \/ error.severity = "high"
                     \/ error.severity = "medium" /\ level \in {"all", "important"}
                     \/ error.severity = "low" /\ level = "all"
        IN /\ Cardinality(LoggedErrors) = 1
           /\ 1 \in LoggedErrors
           /\ eOut[1].body = << error.category, ": " >> \o error.message
           /\ Cardinality(Notifications) = IF shown THEN 1 ELSE 0
           /\ \A i \in Notifications :
                  /\ i = Len(eOut)
                  /\ eOut[i].prefix = IF error.severity = "high"
                                      THEN "[Paths-LE Error] "
                                      ELSE "[Paths-LE Warning] "
                  /\ eOut[i].body = WithDetails(error.userMessage, error.suggestion)
           /\ (level = "silent" /\ error.severity \in {"low", "medium"}) =>
                  Notifications = {}

\* handle was called with a medium-severity error at level important and
\* showed it as a warning after logging it.
C26_Witness ==
    /\ HandleWasCalled
    /\ eCall[1].error.severity = "medium"
    /\ eCall[1].notificationsLevel = "important"
    /\ Cardinality(LoggedErrors) = 1
    /\ \E i \in Notifications : eOut[i].prefix = "[Paths-LE Warning] "

\* handle was called at level silent with a low-severity error: logged only.
C26_SilentLowWitness ==
    /\ HandleWasCalled
    /\ eCall[1].error.severity = "low"
    /\ eCall[1].notificationsLevel = "silent"
    /\ Len(eOut) >= 1
    /\ Notifications = {}

(***************************************************************************)
(* utils/safety: shouldCancelOperation, asked again and again by a caller  *)
(* whose count of processed items grows while the clock advances.          *)
(***************************************************************************)
DefaultMaxTimeMs == 30000

\* Mutant of shouldCancelOperation: the limits themselves already cancel.
shouldCancelOperationAtLimit(processedItems, threshold, startTime, maxTimeMs, now) ==
    LET elapsedTime == now - startTime
    IN processedItems >= threshold \/ elapsedTime >= Coalesce(maxTimeMs, DefaultMaxTimeMs)

\* shouldCancelOperation(processedItems, threshold, startTime, maxTimeMs),
\* Date.now() answering `now`
shouldCancelOperation(processedItems, threshold, startTime, maxTimeMs, now) ==
    LET elapsedTime == now - startTime
    IN processedItems > threshold \/ elapsedTime > Coalesce(maxTimeMs, DefaultMaxTimeMs)

MaxItems == 3

MaxTicks == 4

\* by how much Date.now() has moved between two looks at the clock
ClockSteps == {1, 10000, 30000}

CancelInputs ==
    [fn : {"none"}, processedItems : {0}, threshold : {0, 2}, startTime : {0, 5000},
     maxTimeMs : {Undefined, Some(10000)}, elapsed : {0}, ticks : {0}]

DateNow == fCall[1].startTime + fCall[1].elapsed

CallShouldCancelOperation ==
    /\ fCall' = Applied("shouldCancelOperation")
    /\ fReturn' = Some(shouldCancelOperation(fCall[1].processedItems, fCall[1].threshold,
                                             fCall[1].startTime, fCall[1].maxTimeMs,
                                             DateNow))
    /\ UNCHANGED << envVars, safetyVars, xReturn, cmdVars, errVars, valVars >>

\* The caller has processed one more item.
ProcessOneItem ==
    /\ fCall[1].processedItems < MaxItems
    /\ fCall' = Some([fCall[1] EXCEPT !.fn = "none", !.processedItems = @ + 1])
    /\ UNCHANGED << envVars, safetyVars, xReturn, cmdVars, errVars, valVars, fReturn >>

\* Time passes.
ClockAdvances ==
    /\ fCall[1].ticks < MaxTicks
    /\ \E step \in ClockSteps :
           fCall' = Some([fCall[1] EXCEPT !.fn = "none", !.elapsed = @ + step,
                                          !.ticks = @ + 1])
    /\ UNCHANGED << envVars, safetyVars, xReturn, cmdVars, errVars, valVars, fReturn >>

CancelInit ==
    /\ document = Doc("app.js", "javascript", << "x" >>, 0)
    /\ settings = DefaultSettings
    /\ SafetyVarsInit
    /\ xReturn = Undefined
    /\ CmdVarsInit
    /\ ErrVarsInit
    /\ ValVarsInit
    /\ fCall \in {Some(input) : input \in CancelInputs}
    /\ fReturn = Undefined

CancelNext ==
    \/ CallShouldCancelOperation
    \/ ProcessOneItem
    \/ ClockAdvances

CancelSpec == CancelInit /\ [][CancelNext]_vars

\* C27: shouldCancelOperation answers true exactly when more items were
\* processed than the threshold or more time has passed since startTime than
\* maxTimeMs (30000 when not given): at exactly the threshold and exactly the
\* timeout it answers false.  Once it has answered true it answers true at
\* every later call, the count and the elapsed time only growing.
C27_CancelsStrictlyBeyondLimits ==
    /\ [](Answered("shouldCancelOperation") =>
              LET call == fCall[1]
                  maxTimeMs == IF IsDefined(call.maxTimeMs) THEN call.maxTimeMs[1] ELSE 30000
              IN /\ fReturn[1] = (\/ call.processedItems > call.threshold
                                  \/ call.elapsed > maxTimeMs)
                 /\ (call.processedItems <= call.threshold /\ call.elapsed <= maxTimeMs)
                        => fReturn[1] = FALSE)
    /\ [][fReturn = Some(TRUE) => fReturn' = Some(TRUE)]_vars

\* Asked at exactly the threshold and exactly the default timeout, the answer
\* was false.
C27_Witness ==
    /\ Answered("shouldCancelOperation")
    /\ fCall[1].maxTimeMs = Undefined
    /\ fCall[1].processedItems = fCall[1].threshold
    /\ fCall[1].processedItems > 0
    /\ fCall[1].elapsed = 30000
    /\ fReturn = Some(FALSE)

\* A later call answered true again after more items and more time.
C27_StaysTrueWitness ==
    /\ Answered("shouldCancelOperation")
    /\ fCall[1].processedItems = MaxItems
    /\ fCall[1].elapsed > 30000
    /\ fReturn = Some(TRUE)

(***************************************************************************)
(* createErrorHandler(deps).handleWithRecovery, one await at a time: rPc   *)
(* is kept in fCall together with the loop variable and the count of the   *)
(* calls of the fallback action; eOut collects what the calls of handle    *)
(* write.                                                                  *)
(***************************************************************************)
\* The maxRetries a caller's recovery options hold.
RetryCounts == {-1, 0, 1, MaxAttempts}

SteppedRecoveryOptions ==
    [retryable : BOOLEAN, maxRetries : RetryCounts, retryDelay : {0},
     fallbackAction : {Undefined, Some("caller's fallback")}]

\* const recoveryOptions = options ?? buildErrorRecoveryOptions(error)
RecoveryOptionsInHand ==
    Coalesce(fCall[1].options, buildErrorRecoveryOptions(eCall[1].error))

HandleInRecovery ==
    HandlerHandle(eCall[1].error, eCall[1].stack, eCall[1].notificationsLevel)

InRetryLoop ==
    /\ fCall[1].pc = "running"
    /\ RecoveryOptionsInHand.retryable

RecoveryReturns(value) ==
    /\ fReturn' = Some(value)
    /\ eCall' = Called("ErrorHandler.handleWithRecovery")

\* if (!recoveryOptions.retryable) { await handle(error); return false; }
HandleNotRetryable ==
    /\ fCall[1].pc = "running"
    /\ ~RecoveryOptionsInHand.retryable
    /\ eOut' = eOut \o HandleInRecovery
    /\ fCall' = Some([fCall[1] EXCEPT !.pc = "returned"])
    /\ RecoveryReturns(FALSE)
    /\ UNCHANGED << envVars, safetyVars, xReturn, cmdVars, valVars >>

\* if (!recoveryOptions.fallbackAction) { await handle(error); continue; }
AttemptWithoutFallback ==
    /\ InRetryLoop
    /\ fCall[1].attempt < RecoveryOptionsInHand.maxRetries
    /\ RecoveryOptionsInHand.fallbackAction = Undefined
    /\ eOut' = eOut \o HandleInRecovery
    /\ fCall' = Some([fCall[1] EXCEPT !.attempt = @ + 1])
    /\ UNCHANGED << envVars, safetyVars, xReturn, cmdVars, valVars, eCall, fReturn >>

\* Mutant of AttemptFallback: a fallback action that throws ends the retries.
AttemptFallbackOnce ==
    /\ InRetryLoop
    /\ fCall[1].attempt < RecoveryOptionsInHand.maxRetries
    /\ RecoveryOptionsInHand.fallbackAction # Undefined
    /\ \E outcome \in {"completes", "throws"} :
           /\ fCall' = Some([fCall[1] EXCEPT
                                !.fallbackCalls = @ + 1,
                                !.completed = (outcome = "completes"),
                                !.attempt = IF outcome = "throws"
                                            THEN RecoveryOptionsInHand.maxRetries
                                            ELSE @,
                                !.pc = IF outcome = "completes" THEN "returned" ELSE @])
           /\ IF outcome = "completes"
              THEN RecoveryReturns(TRUE)
              ELSE UNCHANGED << eCall, fReturn >>
    /\ UNCHANGED << envVars, safetyVars, xReturn, cmdVars, valVars, eOut >>

\* try { await recoveryOptions.fallbackAction(); return true; } catch {}
AttemptFallback ==
    /\ InRetryLoop
    /\ fCall[1].attempt < RecoveryOptionsInHand.maxRetries
    /\ RecoveryOptionsInHand.fallbackAction # Undefined
    /\ \E outcome \in {"completes", "throws"} :
           /\ fCall' = Some([fCall[1] EXCEPT
                                !.fallbackCalls = @ + 1,
                                !.completed = (outcome = "completes"),
                                !.attempt = IF outcome = "throws" THEN @ + 1 ELSE @,
                                !.pc = IF outcome = "completes" THEN "returned" ELSE @])
           /\ IF outcome = "completes"
              THEN RecoveryReturns(TRUE)
              ELSE UNCHANGED << eCall, fReturn >>
    /\ UNCHANGED << envVars, safetyVars, xReturn, cmdVars, valVars, eOut >>

\* the loop is left: await handle(error); return false;
RetriesExhausted ==
    /\ InRetryLoop
    /\ ~(fCall[1].attempt < RecoveryOptionsInHand.maxRetries)
    /\ eOut' = eOut \o HandleInRecovery
    /\ fCall' = Some([fCall[1] EXCEPT !.pc = "returned"])
    /\ RecoveryReturns(FALSE)
    /\ UNCHANGED << envVars, safetyVars, xReturn, cmdVars, valVars >>

RecoveryStepsInit ==
    /\ document = Doc("app.js", "javascript", << "x" >>, 0)
    /\ settings = DefaultSettings
    /\ SafetyVarsInit
    /\ xReturn = Undefined
    /\ CmdVarsInit
    /\ eCall \in {Some(e) : e \in RecoveryErrors}
    /\ eOut = << >>
    /\ ValVarsInit
    /\ fCall \in {Some([options |-> options, pc |-> "running", attempt |-> 0,
                        fallbackCalls |-> 0, completed |-> FALSE]) :
                     options \in {Undefined} \cup {Some(o) : o \in SteppedRecoveryOptions}}
    /\ fReturn = Undefined

RecoveryStepsNext ==
    \/ HandleNotRetryable
    \/ AttemptWithoutFallback
    \/ AttemptFallback
    \/ RetriesExhausted

\* Every await of handleWithRecovery settles: handle awaits nothing, and the
\* fallback action is taken to complete or throw.
RecoveryStepsSpec ==
    RecoveryStepsInit /\ [][RecoveryStepsNext]_vars /\ WF_vars(RecoveryStepsNext)

RecoveryReturned == fCall[1].pc = "returned"

\* the number of times the retry loop can turn
Turns(maxRetries) == IF maxRetries > 0 THEN maxRetries ELSE 0

C28_RecoveredWitness ==
    /\ RecoveryReturned
    /\ fCall[1].fallbackCalls = 2
    /\ fCall[1].completed
    /\ fReturn = Some(TRUE)
    /\ eOut = << >>

(***************************************************************************)
(* The extract command and the text of the document it was started on.    *)
(***************************************************************************)
\* A step of the extract command: it leaves a run behind it.
CommandStep == IsDefined(cRun')

EarlyExits == {"no-editor", "safety-blocked", "extraction-failed", "no-paths",
               "warning-declined"}

\* C29: no step of the extract command changes the text of the active
\* document, except displayResults when both openResultsSideBySide and
\* postProcessOpenInNewFile are false: then the document the command was
\* started on holds the joined result.  With either of them set the result
\* goes to a new untitled document and the document of the run is left as it
\* was; on every early exit the document is as before.  After a safety block
\* extractPaths has not been called.
C29_DocumentReplacedOnlyInReplaceMode ==
    [][CommandStep =>
           LET run == cRun'[1]
               config == getConfiguration(run.settings)
               replaces == /\ ~config.openResultsSideBySide
                           /\ ~config.postProcessOpenInNewFile
           IN /\ run.outcome # "displayed" => document' = document
              /\ run.outcome \in EarlyExits =>
                     /\ document' = document
                     /\ cDisplay' = Undefined
                     /\ cPc' = "idle"
              /\ run.outcome = "safety-blocked" =>
                     /\ run.extraction = Undefined
                     /\ run.calls = << >>
              /\ run.outcome = "displayed" =>
                     /\ run.document = document
                     /\ IF replaces
                        THEN /\ document'.fileName = document.fileName
                             /\ document' = Doc(document.fileName, document.languageId,
                                                JoinLines(run.formatted[1]), 1)
                             /\ cDisplay'[1].mode = "replace"
                        ELSE /\ document'.fileName # document.fileName
                             /\ cDisplay'[1].mode # "replace"]_vars

\* The results of a run were written over the document the run started on.
C29_Witness ==
    /\ IsDefined(cRun)
    /\ cRun[1].outcome = "displayed"
    /\ cDisplay[1].mode = "replace"
    /\ document.fileName = cRun[1].document.fileName
    /\ document # cRun[1].document

\* The results went to a new file and the document of the run was left.
C29_NewFileWitness ==
    /\ IsDefined(cRun)
    /\ cRun[1].outcome = "displayed"
    /\ cDisplay[1].mode = "new-file"
    /\ document.fileName # cRun[1].document.fileName

(***************************************************************************)
(* The extract command and the progress indicator of the status bar.      *)
(***************************************************************************)
\* C30 as stated: when an invocation of the command has finished, every
\* showProgress it made has been followed by hideProgress: no progress is
\* shown while no invocation is running.
C30_ProgressHiddenWhenFinished ==
    cPc = "idle" => cProgress = Undefined

\* What does hold: the progress is hidden when a run ends with its results
\* displayed; it is left showing by a run whose warning dialog was not
\* answered with 'Continue', and stays through later runs that exit early.
C30_ProgressLeftOnlyByDeclinedWarning ==
    (cPc = "idle" /\ IsDefined(cRun)) =>
        /\ cRun[1].outcome = "displayed" => cProgress = Undefined
        /\ (IsDefined(cProgress) /\ cRun[1].outcome # "no-editor") =>
               \/ cRun[1].outcome = "warning-declined"
               \/ cRun[1].outcome \in {"safety-blocked", "extraction-failed", "no-paths"}

=====
